---- MODULE Spec2Model ----
(***************************************************************************)
(* Park-Net backend: the parking lottery (app/modules/sorteo/service.py)   *)
(* over the three MongoDB collections it reads and writes (users,          *)
(* requests, lotteries) through app/shared/repository.py.                  *)
(*                                                                         *)
(* Conventions.                                                            *)
(*  - A collection is the sequence of its documents in natural (insertion) *)
(*    order.                                                               *)
(*  - An Optional value is a sequence of length 0 (None) or 1.             *)
(*  - A Python str that the code builds or takes apart (a period, a spot   *)
(*    identifier, an assignment key) is the sequence of its characters;    *)
(*    opaque strings (names, plates, ids) are TLA+ strings or integers.    *)
(*  - executed_at / created_at / updated_at are not modelled: no code path *)
(*    of the services reads them.                                          *)
(***************************************************************************)
EXTENDS Integers, Sequences, FiniteSets, TLC

VARIABLES
    users,      \* collection db["users"]
    requests,   \* collection db["requests"]
    lotteries,  \* collection db["lotteries"]
    nextOid,    \* number of ObjectIds the lotteries collection has handed out
    tasks,      \* the in-flight execute_lottery coroutines (pc and locals)
    last        \* the most recent return of an execute_lottery run as one step:
                \* its response and locals

vars == <<users, requests, lotteries, nextOid, tasks, last>>

----------------------------------------------------------------------------
(* Bounds of the model.                                                    *)

\* largest number of request documents in the store of Spec
NumRequests == 3
\* largest num_car_spots / num_moto_spots an administrator submits
MaxSpots == 2

UserIds == {"u1", "u2"}
VehicleTypes == {"automovil", "motocicleta"}
\* two consecutive calendar months across a year rollover
PeriodPrev == <<"2", "0", "2", "4", "-", "1", "2">>
PeriodCur == <<"2", "0", "2", "5", "-", "0", "1">>
Periods == {PeriodPrev, PeriodCur}

----------------------------------------------------------------------------
(* Python text primitives used by the service.                             *)

Min(S) == CHOOSE x \in S : \A y \in S : x <= y

Range(s) == {s[i] : i \in DOMAIN s}

DigitChars == <<"0", "1", "2", "3", "4", "5", "6", "7", "8", "9">>

IsDigit(c) == \E i \in DOMAIN DigitChars : DigitChars[i] = c

DigitVal(c) == (CHOOSE i \in DOMAIN DigitChars : DigitChars[i] = c) - 1

\* str(n) for n >= 0
RECURSIVE DecDigits(_)
DecDigits(n) ==
    IF n < 10 THEN <<DigitChars[n + 1]>>
    ELSE DecDigits(n \div 10) \o <<DigitChars[(n % 10) + 1]>>

RECURSIVE ZeroPad(_, _)
ZeroPad(s, width) ==
    IF Len(s) >= width THEN s ELSE ZeroPad(<<"0">> \o s, width)

\* f"{n:0<width>d}": sign-aware zero padding to a minimum width
FormatInt(n, width) ==
    IF n >= 0 THEN ZeroPad(DecDigits(n), width)
    ELSE <<"-">> \o ZeroPad(DecDigits(0 - n), width - 1)

\* int(s) for a string of decimal digits
RECURSIVE ParseInt(_)
ParseInt(s) ==
    IF Len(s) = 0 THEN 0
    ELSE 10 * ParseInt(SubSeq(s, 1, Len(s) - 1)) + DigitVal(s[Len(s)])

\* s.split('-')
RECURSIVE SplitDash(_)
SplitDash(s) ==
    LET dashes == {i \in DOMAIN s : s[i] = "-"} IN
    IF dashes = {} THEN <<s>>
    ELSE LET i == Min(dashes) IN
         <<SubSeq(s, 1, i - 1)>> \o SplitDash(SubSeq(s, i + 1, Len(s)))

\* mutant of ValidPeriod: min_length and max_length without the pattern
ValidPeriodLengthOnly(s) == Len(s) = 7

\* the pattern ^\d{4}-\d{2}$ of LotteryCreate.period
ValidPeriod(s) ==
    /\ Len(s) = 7
    /\ s[5] = "-"
    /\ \A i \in {1, 2, 3, 4, 6, 7} : IsDigit(s[i])

----------------------------------------------------------------------------
(* BaseRepository (app/shared/repository.py).                              *)

\* a Mongo equality query {field: value, ...} against one document
Matches(doc, query) == \A k \in DOMAIN query : doc[k] = query[k]

MatchingDocs(coll, query) == SelectSeq(coll, LAMBDA d : Matches(d, query))

\* find_one: the first matching document, or None
FindOne(coll, query) ==
    LET m == MatchingDocs(coll, query) IN
    IF m = <<>> THEN <<>> ELSE <<Head(m)>>

\* find_many: cursor.skip(skip).limit(limit); a limit of 0 is no limit
FindMany(coll, query, skip, limit) ==
    LET m == MatchingDocs(coll, query)
        hi == IF limit = 0 \/ skip + limit > Len(m) THEN Len(m) ELSE skip + limit
    IN SubSeq(m, skip + 1, hi)

\* get: the document with this _id, or None
Get(coll, item_id) == FindOne(coll, [id |-> item_id])

\* mutant of Create: insert_one of the document without its non_winners,
\* which a later update would add
CreateWithoutNonWinners(coll, obj_in, oid) ==
    Append(coll, [obj_in EXCEPT !.id = oid, !.non_winners = <<>>])

\* mutant of Create: replace_one with upsert on an empty filter, the first
\* document of the collection is replaced when there is one
CreateReplacingFirst(coll, obj_in, oid) ==
    IF coll = <<>> THEN <<[obj_in EXCEPT !.id = oid]>>
    ELSE <<[obj_in EXCEPT !.id = oid]>> \o Tail(coll)

\* create: insert_one (Mongo assigns the _id), then read the document back
Create(coll, obj_in, oid) == Append(coll, [obj_in EXCEPT !.id = oid])

\* mutant of Delete: delete_many of every _id up to the given one
DeleteUpTo(coll, item_id) == SelectSeq(coll, LAMBDA d : d.id > item_id)

\* delete: delete_one by _id; the collection without that document
Delete(coll, item_id) == SelectSeq(coll, LAMBDA d : d.id # item_id)

----------------------------------------------------------------------------
(* LotteryService (app/modules/sorteo/service.py): the pure parts.         *)

DisabilityWeight == 1000
PreviousNonWinnerWeight == 500
PayWeight == 100
\* the limit execute_lottery passes to find_many
AcceptedRequestsLimit == 1000

\* mutant of PreviousPeriod: month - 1 with no year rollover
PreviousPeriodNoRollover(current_period) ==
    LET parts == SplitDash(current_period)
        year == ParseInt(parts[1])
        month == ParseInt(parts[2])
    IN FormatInt(year, 4) \o <<"-">> \o FormatInt(month - 1, 2)

\* whether the first line of _get_previous_period_non_winners raises
\* ValueError: the split does not unpack into two parts, or int() is given
\* an empty string (a part holds digits only once the dashes are split off)
ResolverRaises(current_period) ==
    LET parts == SplitDash(current_period) IN
    \/ Len(parts) # 2
    \/ \E i \in DOMAIN parts :
          parts[i] = <<>> \/ \E j \in DOMAIN parts[i] : ~IsDigit(parts[i][j])

\* the calendar month before current_period, formatted back to 'YYYY-MM'
PreviousPeriod(current_period) ==
    LET parts == SplitDash(current_period)
        year == ParseInt(parts[1])
        month == ParseInt(parts[2])
        prev_month == IF month = 1 THEN 12 ELSE month - 1
        prev_year == IF month = 1 THEN year - 1 ELSE year
    IN FormatInt(prev_year, 4) \o <<"-">> \o FormatInt(prev_month, 2)

\* _get_previous_period_non_winners: the user_id of every non_winner of the
\* stored result of the previous period, as a list (empty when none)
GetPreviousPeriodNonWinners(lots, current_period) ==
    LET previous_lottery == FindOne(lots, [period |-> PreviousPeriod(current_period)]) IN
    IF previous_lottery # <<>> /\ previous_lottery[1].non_winners # <<>>
    THEN [i \in DOMAIN previous_lottery[1].non_winners |->
             previous_lottery[1].non_winners[i].user_id]
    ELSE <<>>

\* mutant of GenerateSpots: the prefixes of the two lists are exchanged
GenerateSpotsSwappedPrefix(num_car_spots, num_moto_spots) ==
    [automovil |-> [i \in 1..num_car_spots |-> <<"M", "-">> \o FormatInt(i, 2)],
     motocicleta |-> [i \in 1..num_moto_spots |-> <<"C", "-">> \o FormatInt(i, 2)]]

\* mutant of GenerateSpots: both lists numbered under the same prefix
GenerateSpotsOnePrefix(num_car_spots, num_moto_spots) ==
    [automovil |-> [i \in 1..num_car_spots |-> <<"C", "-">> \o FormatInt(i, 2)],
     motocicleta |-> [i \in 1..num_moto_spots |-> <<"C", "-">> \o FormatInt(i, 2)]]

\* mutant of GenerateSpots: range(num + 1), one spot more than offered
GenerateSpotsOneMore(num_car_spots, num_moto_spots) ==
    [automovil |-> [i \in 1..(num_car_spots + 1) |-> <<"C", "-">> \o FormatInt(i, 2)],
     motocicleta |-> [i \in 1..(num_moto_spots + 1) |-> <<"M", "-">> \o FormatInt(i, 2)]]

\* mutant of ExistingLottery: the check looks up the previous period
ExistingLotteryOfPreviousPeriod(lots, period) ==
    FindOne(lots, [period |-> PreviousPeriod(period)])

\* the existence check that opens execute_lottery
ExistingLottery(lots, period) == FindOne(lots, [period |-> period])

\* _generate_spots: C-01, C-02, ... and M-01, M-02, ...
GenerateSpots(num_car_spots, num_moto_spots) ==
    [automovil |-> [i \in 1..num_car_spots |-> <<"C", "-">> \o FormatInt(i, 2)],
     motocicleta |-> [i \in 1..num_moto_spots |-> <<"M", "-">> \o FormatInt(i, 2)]]

\* mutant of RequestsWithUserInfo: a request served from user_cache is dropped
RECURSIVE RequestsWithUserInfoDropCached(_, _)
RequestsWithUserInfoDropCached(accepted_requests, user_coll) ==
    IF accepted_requests = <<>> THEN <<>>
    ELSE LET n == Len(accepted_requests)
             req == accepted_requests[n]
             before == RequestsWithUserInfoDropCached(SubSeq(accepted_requests, 1, n - 1),
                                                      user_coll)
             cached == {i \in DOMAIN before : before[i].user.id = req.user_id}
             user_obj == IF cached # {} THEN <<>> ELSE Get(user_coll, req.user_id)
         IN IF user_obj = <<>> THEN before
            ELSE Append(before, [request |-> req, user |-> user_obj[1], priority_score |-> 0])

\* mutant of RequestsWithUserInfo: no continue, a request whose user is not
\* found goes on with a user built from the user_id of the request
RECURSIVE RequestsWithUserInfoNoSkip(_, _)
RequestsWithUserInfoNoSkip(accepted_requests, user_coll) ==
    IF accepted_requests = <<>> THEN <<>>
    ELSE LET n == Len(accepted_requests)
             req == accepted_requests[n]
             before == RequestsWithUserInfoNoSkip(SubSeq(accepted_requests, 1, n - 1),
                                                  user_coll)
             user_obj == Get(user_coll, req.user_id)
             user == IF user_obj = <<>>
                     THEN [id |-> req.user_id, cc |-> <<>>, full_name |-> <<>>,
                           apartment |-> <<>>, email |-> <<>>, role |-> "residente"]
                     ELSE user_obj[1]
         IN Append(before, [request |-> req, user |-> user, priority_score |-> 0])

\* the loop that pairs each accepted request with its user (through
\* user_cache); a request whose user is not found is skipped
RECURSIVE RequestsWithUserInfo(_, _)
RequestsWithUserInfo(accepted_requests, user_coll) ==
    IF accepted_requests = <<>> THEN <<>>
    ELSE LET n == Len(accepted_requests)
             req == accepted_requests[n]
             before == RequestsWithUserInfo(SubSeq(accepted_requests, 1, n - 1), user_coll)
             cached == {i \in DOMAIN before : before[i].user.id = req.user_id}
             user_obj == IF cached # {} THEN <<before[Min(cached)].user>>
                         ELSE Get(user_coll, req.user_id)
         IN IF user_obj = <<>> THEN before
            ELSE Append(before, [request |-> req, user |-> user_obj[1], priority_score |-> 0])

\* mutant of PriorityScore: the pay bonus hangs on an elif of the carry-forward
PriorityScoreElifPay(req, user, previous_non_winners_ids) ==
    (IF req.disability THEN DisabilityWeight ELSE 0)
    + (IF user.id \in Range(previous_non_winners_ids) THEN PreviousNonWinnerWeight
       ELSE IF req.pay THEN PayWeight ELSE 0)

\* the priority score of one candidate
PriorityScore(req, user, previous_non_winners_ids) ==
    (IF req.disability THEN DisabilityWeight ELSE 0)
    + (IF user.id \in Range(previous_non_winners_ids) THEN PreviousNonWinnerWeight ELSE 0)
    + (IF req.pay THEN PayWeight ELSE 0)

ScoreAll(items, previous_non_winners_ids) ==
    [i \in DOMAIN items |->
        [items[i] EXCEPT !.priority_score =
            items[i].priority_score
            + PriorityScore(items[i].request, items[i].user, previous_non_winners_ids)]]

\* mutant of SortByScoreDesc: reverse=True is dropped, the sort is ascending
RECURSIVE SortByScoreAsc(_)
SortByScoreAsc(items) ==
    IF items = <<>> THEN <<>>
    ELSE LET n == Len(items)
             x == items[n]
             sorted == SortByScoreAsc(SubSeq(items, 1, n - 1))
             k == Cardinality({i \in DOMAIN sorted : sorted[i].priority_score <= x.priority_score})
         IN SubSeq(sorted, 1, k) \o <<x>> \o SubSeq(sorted, k + 1, Len(sorted))

\* list.sort(key=priority_score, reverse=True): stable, descending
RECURSIVE SortByScoreDesc(_)
SortByScoreDesc(items) ==
    IF items = <<>> THEN <<>>
    ELSE LET n == Len(items)
             x == items[n]
             sorted == SortByScoreDesc(SubSeq(items, 1, n - 1))
             k == Cardinality({i \in DOMAIN sorted : sorted[i].priority_score >= x.priority_score})
         IN SubSeq(sorted, 1, k) \o <<x>> \o SubSeq(sorted, k + 1, Len(sorted))

\* itertools.groupby on the score: the maximal runs of equal consecutive keys
RECURSIVE GroupByScore(_)
GroupByScore(items) ==
    IF items = <<>> THEN <<>>
    ELSE LET score == items[1].priority_score
             differ == {i \in DOMAIN items : items[i].priority_score # score}
             k == IF differ = {} THEN Len(items) ELSE Min(differ) - 1
         IN <<SubSeq(items, 1, k)>> \o GroupByScore(SubSeq(items, k + 1, Len(items)))

\* mutant of Shuffles: no shuffle, the group keeps the order of the sort
ShufflesIdentity(group_list) == {group_list}

\* random.shuffle: every permutation of the list is a possible outcome
RECURSIVE Shuffles(_)
Shuffles(group_list) ==
    IF group_list = <<>> THEN {<<>>}
    ELSE UNION {{<<group_list[i]>> \o rest :
                    rest \in Shuffles(SubSeq(group_list, 1, i - 1)
                                      \o SubSeq(group_list, i + 1, Len(group_list)))}
                : i \in DOMAIN group_list}

\* grouped_requests: each group shuffled, the groups concatenated in order
RECURSIVE ShuffledGroups(_)
ShuffledGroups(groups) ==
    IF groups = <<>> THEN {<<>>}
    ELSE {g \o rest : g \in Shuffles(Head(groups)), rest \in ShuffledGroups(Tail(groups))}

\* mutant of FinalSortedRequests: one shuffle of the whole list, no groups
FinalSortedRequestsOneShuffle(scored) == Shuffles(scored)

\* the possible values of final_sorted_requests
FinalSortedRequests(scored) == ShuffledGroups(GroupByScore(SortByScoreDesc(scored)))

ParticipantResult(user, req, spot) ==
    [user_id |-> user.id, cc |-> user.cc, full_name |-> user.full_name,
     apartment |-> user.apartment, vehicle_type |-> req.vehicle_type,
     license_plate |-> req.license_plate, spot |-> spot, request_id |-> req.id]

\* mutant of AssignmentKey: the key is the user alone
AssignmentKeyUserOnly(user, req) == <<user.id>>

\* f"{user.id}_{req.vehicle_type}"
AssignmentKey(user, req) == <<user.id, "_", req.vehicle_type>>

\* mutant of AlreadyAssigned: the duplicate-pair check never fires
AlreadyAssignedNever(assignment_key, assigned) == FALSE

\* whether the walk treats the key as already assigned
AlreadyAssigned(assignment_key, assigned) == assignment_key \in assigned

\* mutant of SpotAssigned: the motorcycle branch tests the car list
SpotAssignedCarListOnly(req, car_spots, moto_spots) ==
    IF req.vehicle_type = "automovil" /\ car_spots # <<>> THEN Head(car_spots)
    ELSE IF req.vehicle_type = "motocicleta" /\ car_spots # <<>> /\ moto_spots # <<>>
    THEN Head(moto_spots)
    ELSE <<>>

\* the spot popped for one candidate, None (<<>>) when its list is empty
SpotAssigned(req, car_spots, moto_spots) ==
    IF req.vehicle_type = "automovil" /\ car_spots # <<>> THEN Head(car_spots)
    ELSE IF req.vehicle_type = "motocicleta" /\ moto_spots # <<>> THEN Head(moto_spots)
    ELSE <<>>

\* one iteration of the assignment loop over final_sorted_requests
WalkStep(st, item) ==
    LET req == item.request
        user == item.user
        assignment_key == AssignmentKey(user, req)
    IN IF AlreadyAssigned(assignment_key, st.assigned)
       THEN [st EXCEPT !.non_winners = Append(@, ParticipantResult(user, req, <<>>))]
       ELSE LET spot_assigned == SpotAssigned(req, st.car_spots, st.moto_spots) IN
            IF spot_assigned # <<>>
            THEN [car_spots |-> IF req.vehicle_type = "automovil"
                                THEN Tail(st.car_spots) ELSE st.car_spots,
                  moto_spots |-> IF req.vehicle_type = "automovil"
                                 THEN st.moto_spots ELSE Tail(st.moto_spots),
                  winners |-> Append(st.winners, ParticipantResult(user, req, spot_assigned)),
                  non_winners |-> st.non_winners,
                  assigned |-> st.assigned \cup {assignment_key}]
            ELSE [st EXCEPT !.non_winners = Append(@, ParticipantResult(user, req, <<>>))]

RECURSIVE Walk(_, _)
Walk(final_sorted_requests, st) ==
    IF final_sorted_requests = <<>> THEN st
    ELSE Walk(Tail(final_sorted_requests), WalkStep(st, Head(final_sorted_requests)))

\* mutant of NewLotteryResult: the two offered totals are exchanged
NewLotteryResultSwappedTotals(period, num_car_spots, num_moto_spots, final_sorted_requests) ==
    LET available_spots == GenerateSpots(num_car_spots, num_moto_spots)
        st == Walk(final_sorted_requests,
                   [car_spots |-> available_spots.automovil,
                    moto_spots |-> available_spots.motocicleta,
                    winners |-> <<>>, non_winners |-> <<>>, assigned |-> {}])
    IN [id |-> 0, period |-> period,
        total_car_spots_offered |-> num_moto_spots,
        total_moto_spots_offered |-> num_car_spots,
        winners |-> st.winners, non_winners |-> st.non_winners]

\* the LotteryResult execute_lottery builds from final_sorted_requests
NewLotteryResult(period, num_car_spots, num_moto_spots, final_sorted_requests) ==
    LET available_spots == GenerateSpots(num_car_spots, num_moto_spots)
        st == Walk(final_sorted_requests,
                   [car_spots |-> available_spots.automovil,
                    moto_spots |-> available_spots.motocicleta,
                    winners |-> <<>>, non_winners |-> <<>>, assigned |-> {}])
    IN [id |-> 0, period |-> period,
        total_car_spots_offered |-> num_car_spots,
        total_moto_spots_offered |-> num_moto_spots,
        winners |-> st.winners, non_winners |-> st.non_winners]

----------------------------------------------------------------------------
(* Documents.                                                              *)

\* a User document (residentes/models.py); the fields the services read
UserDoc(u) ==
    [id |-> u, cc |-> <<"cc", u>>, full_name |-> <<"name", u>>,
     apartment |-> <<"apt", u>>, email |-> <<"mail", u>>, role |-> "residente"]

RequestDoc(i, in, status) ==
    [id |-> i, user_id |-> in.user_id, vehicle_type |-> in.vehicle_type,
     license_plate |-> <<"plate", i>>, disability |-> in.disability,
     pay |-> in.pay, status |-> status, lottery_period |-> in.lottery_period]

\* a sequence of the elements of a finite set of strings, in some fixed order
RECURSIVE SeqOfSet(_)
SeqOfSet(S) ==
    IF S = {} THEN <<>>
    ELSE LET x == CHOOSE x \in S : TRUE IN <<x>> \o SeqOfSet(S \ {x})

NoCall == [op |-> "none", status |-> 0]

----------------------------------------------------------------------------
(* The handlers, one request at a time.                                    *)

\* LotteryService.execute_lottery
ExecuteLottery(period, num_car_spots, num_moto_spots) ==
    LET existing_lottery == ExistingLottery(lotteries, period)
        accepted_requests ==
            FindMany(requests, [lottery_period |-> period, status |-> "accepted"],
                     0, AcceptedRequestsLimit)
        previous_non_winners_ids == GetPreviousPeriodNonWinners(lotteries, period)
        requests_with_user_info ==
            ScoreAll(RequestsWithUserInfo(accepted_requests, users),
                     previous_non_winners_ids)
    IN
    \/ \* 409: a lottery of this period is already stored
       /\ existing_lottery # <<>>
       /\ last' = [op |-> "execute_lottery", status |-> 409, period |-> period]
       /\ UNCHANGED <<users, requests, lotteries, nextOid, tasks>>
    \/ \* no accepted request: an empty result is stored
       /\ existing_lottery = <<>>
       /\ accepted_requests = <<>>
       /\ lotteries' = Create(lotteries,
                              NewLotteryResult(period, num_car_spots, num_moto_spots, <<>>),
                              nextOid + 1)
       /\ nextOid' = nextOid + 1
       /\ last' = [op |-> "execute_lottery", status |-> 201, period |-> period,
                   num_car_spots |-> num_car_spots, num_moto_spots |-> num_moto_spots,
                   accepted_requests |-> <<>>, previous_non_winners_ids |-> <<>>,
                   requests_with_user_info |-> <<>>, final_sorted_requests |-> <<>>,
                   result |-> lotteries'[Len(lotteries')]]
       /\ UNCHANGED <<users, requests, tasks>>
    \/ \* the draw
       /\ existing_lottery = <<>>
       /\ accepted_requests # <<>>
       /\ \E final_sorted_requests \in FinalSortedRequests(requests_with_user_info) :
            /\ lotteries' = Create(lotteries,
                                   NewLotteryResult(period, num_car_spots, num_moto_spots,
                                                    final_sorted_requests),
                                   nextOid + 1)
            /\ nextOid' = nextOid + 1
            /\ last' = [op |-> "execute_lottery", status |-> 201, period |-> period,
                        num_car_spots |-> num_car_spots,
                        num_moto_spots |-> num_moto_spots,
                        accepted_requests |-> accepted_requests,
                        previous_non_winners_ids |-> previous_non_winners_ids,
                        requests_with_user_info |-> requests_with_user_info,
                        final_sorted_requests |-> final_sorted_requests,
                        result |-> lotteries'[Len(lotteries')]]
       /\ UNCHANGED <<users, requests, tasks>>

\* ResidentService._get_user_by_identifier
GetUserByIdentifier(user_coll, identifier) ==
    LET user == Get(user_coll, identifier) IN
    IF user # <<>> THEN user ELSE FindOne(user_coll, [cc |-> identifier])

\* ResidentService.delete_user
DeleteUser(user_id) ==
    LET user_to_delete == GetUserByIdentifier(users, user_id)
        admin_count == Len(MatchingDocs(users, [role |-> "administrador"]))
    IN
    /\ IF user_to_delete = <<>>
       THEN UNCHANGED users   \* 404
       ELSE IF user_to_delete[1].role = "administrador" /\ admin_count <= 1
       THEN UNCHANGED users   \* 400
       ELSE users' = Delete(users, user_to_delete[1].id)
    /\ UNCHANGED <<requests, lotteries, nextOid, tasks, last>>

\* mutant of FilterWinners: the comprehension keeps the other vehicle types
FilterWinnersOtherTypes(winners, vehicle_type) ==
    IF vehicle_type # <<>>
    THEN SelectSeq(winners, LAMBDA winner : winner.vehicle_type # vehicle_type[1])
    ELSE winners

\* the winners get_lottery_result returns: narrowed when a vehicle_type is given
FilterWinners(winners, vehicle_type) ==
    IF vehicle_type # <<>>
    THEN SelectSeq(winners, LAMBDA winner : winner.vehicle_type = vehicle_type[1])
    ELSE winners

\* LotteryService.get_lottery_result; vehicle_type is None (<<>>) or a type
GetLotteryResult(lottery_period, vehicle_type) ==
    LET lottery_result == FindOne(lotteries, [period |-> lottery_period]) IN
    /\ last' = IF lottery_result = <<>>
               THEN [op |-> "get_lottery_result", status |-> 404,
                     period |-> lottery_period, vehicle_type |-> vehicle_type]
               ELSE [op |-> "get_lottery_result", status |-> 200,
                     period |-> lottery_period, vehicle_type |-> vehicle_type,
                     result |-> [lottery_result[1] EXCEPT
                                    !.winners = FilterWinners(@, vehicle_type)]]
    /\ UNCHANGED <<users, requests, lotteries, nextOid, tasks>>

MyAssignmentOut(lottery_period, winner) ==
    [period |-> lottery_period, vehicle_type |-> winner.vehicle_type,
     license_plate |-> winner.license_plate, spot |-> winner.spot]

\* mutant of MyAssignments: the loop runs over winners and non_winners
MyAssignmentsOfAllEntries(lottery_result, user_id, lottery_period) ==
    LET mine == SelectSeq(lottery_result.winners \o lottery_result.non_winners,
                          LAMBDA winner : winner.user_id = user_id)
    IN [i \in DOMAIN mine |-> MyAssignmentOut(lottery_period, mine[i])]

\* the list get_my_assignment builds from a stored result
MyAssignments(lottery_result, user_id, lottery_period) ==
    LET mine == SelectSeq(lottery_result.winners,
                          LAMBDA winner : winner.user_id = user_id)
    IN [i \in DOMAIN mine |-> MyAssignmentOut(lottery_period, mine[i])]

\* LotteryService.get_my_assignment
GetMyAssignment(user_id, lottery_period) ==
    LET lottery_result == FindOne(lotteries, [period |-> lottery_period]) IN
    /\ last' = [op |-> "get_my_assignment", status |-> 200,
                user_id |-> user_id, period |-> lottery_period,
                my_assignments |->
                    IF lottery_result = <<>> THEN <<>>
                    ELSE MyAssignments(lottery_result[1], user_id, lottery_period)]
    /\ UNCHANGED <<users, requests, lotteries, nextOid, tasks>>

\* LotteryService.delete_lottery_result (the endpoint answers 204)
DeleteLotteryResult(lottery_period) ==
    LET lottery_to_delete == FindOne(lotteries, [period |-> lottery_period]) IN
    \/ \* 404: no lottery of this period
       /\ lottery_to_delete = <<>>
       /\ last' = [op |-> "delete_lottery_result", status |-> 404,
                   period |-> lottery_period]
       /\ UNCHANGED <<users, requests, lotteries, nextOid, tasks>>
    \/ \* delete_one by _id; 500 when nothing was deleted
       /\ lottery_to_delete # <<>>
       /\ lotteries' = Delete(lotteries, lottery_to_delete[1].id)
       /\ last' = [op |-> "delete_lottery_result",
                   status |-> IF Len(lotteries') < Len(lotteries) THEN 204 ELSE 500,
                   period |-> lottery_period]
       /\ UNCHANGED <<users, requests, nextOid, tasks>>

----------------------------------------------------------------------------
(* Stores of accepted requests.  Every store of accepted requests is one   *)
(* the request handlers can build: create_request inserts a pending        *)
(* request when the resident has no pending or accepted one of the pair,   *)
(* and update_request_status sets any status on any request without        *)
(* looking at the others, so rejecting a request, creating the next and    *)
(* accepting both afterwards yields any combination.  The stores are       *)
(* enumerated up to the order of their documents (request ids are          *)
(* interchangeable).                                                       *)

AllUsers == [i \in DOMAIN SeqOfSet(UserIds) |-> UserDoc(SeqOfSet(UserIds)[i])]

\* the stores of n accepted requests whose chosen fields come from inputs
AcceptedStores(inputs, n) ==
    LET choices == SeqOfSet(inputs)
        picks == {f \in [1..n -> DOMAIN choices] : \A i \in 1..(n - 1) : f[i] <= f[i + 1]}
    IN {[i \in 1..n |-> RequestDoc(i, choices[f[i]], "accepted")] : f \in picks}

\* the stores of at most n accepted requests, all users registered, no lottery
InitStore(inputs, n) ==
    /\ users = AllUsers
    /\ requests \in UNION {AcceptedStores(inputs, k) : k \in 0..n}
    /\ lotteries = <<>>
    /\ nextOid = 0
    /\ last = NoCall

----------------------------------------------------------------------------
(* Spec: the allocation of one period.  The handlers run one at a time     *)
(* over a store of at most NumRequests accepted requests of PeriodCur.     *)

AllocInputs ==
    [user_id : UserIds, vehicle_type : VehicleTypes, disability : BOOLEAN,
     pay : {FALSE}, lottery_period : {PeriodCur}]

Init == InitStore(AllocInputs, NumRequests) /\ tasks = <<>>

Next ==
    \/ \E num_car_spots \in 0..MaxSpots, num_moto_spots \in 0..MaxSpots :
          ExecuteLottery(PeriodCur, num_car_spots, num_moto_spots)
    \/ \E user_id \in UserIds : DeleteUser(user_id)

Spec == Init /\ [][Next]_vars

----------------------------------------------------------------------------
(* Properties of the stored results (Spec).                                *)

\* the run that last returned 201 with a draw
LastRan == last.op = "execute_lottery" /\ last.status = 201

Entries(lot) == lot.winners \o lot.non_winners

\* the positions of the stored results of a period
StoredAt(lots, period) == {k \in DOMAIN lots : lots[k].period = period}

SamePair(a, b) == a.user_id = b.user_id /\ a.vehicle_type = b.vehicle_type

WinnersOf(lot, vehicle_type) ==
    {i \in DOMAIN lot.winners : lot.winners[i].vehicle_type = vehicle_type}

Offered(lot, vehicle_type) ==
    IF vehicle_type = "automovil" THEN lot.total_car_spots_offered
    ELSE lot.total_moto_spots_offered

WinnerIds(lot) == {lot.winners[i].request_id : i \in DOMAIN lot.winners}

\* C3 (as claimed): in every stored result each (user_id, vehicle_type) pair
\* appears at most once among winners and non_winners taken together.
C3_PairOnceAmongAllEntries ==
    \A k \in DOMAIN lotteries :
        LET e == Entries(lotteries[k]) IN
        \A i, j \in DOMAIN e : i # j => ~SamePair(e[i], e[j])

\* C4: in every stored result no (user_id, vehicle_type) pair wins twice, and
\* in the last draw every candidate that comes after a winner of its own pair
\* is recorded as a non-winner with no spot.
C4_NoDoubleAssignment ==
    /\ \A k \in DOMAIN lotteries :
          LET w == lotteries[k].winners IN
          \A i, j \in DOMAIN w : i # j => ~SamePair(w[i], w[j])
    /\ LastRan =>
          LET f == last.final_sorted_requests
              lot == last.result
          IN \A i, j \in DOMAIN f :
                (/\ i < j
                 /\ f[i].request.id \in WinnerIds(lot)
                 /\ f[i].user.id = f[j].user.id
                 /\ f[i].request.vehicle_type = f[j].request.vehicle_type)
                => /\ f[j].request.id \notin WinnerIds(lot)
                   /\ \E n \in DOMAIN lot.non_winners :
                         /\ lot.non_winners[n].request_id = f[j].request.id
                         /\ lot.non_winners[n].spot = <<>>

\* C4 witness: a stored result in which a pair won once and its duplicate
\* request is a non-winner although a spot of that category was left over.
C4_Witness ==
    \E k \in DOMAIN lotteries :
        LET lot == lotteries[k] IN
        \E i \in DOMAIN lot.winners, n \in DOMAIN lot.non_winners :
            /\ SamePair(lot.winners[i], lot.non_winners[n])
            /\ Cardinality(WinnersOf(lot, lot.winners[i].vehicle_type))
                 < Offered(lot, lot.winners[i].vehicle_type)

\* C5: in every stored result the spots of the winners are pairwise distinct.
C5_WinnerSpotsDistinct ==
    \A k \in DOMAIN lotteries :
        LET w == lotteries[k].winners IN
        \A i, j \in DOMAIN w : i # j => w[i].spot # w[j].spot

\* C5 witness: a result with two car winners and a motorcycle winner.
C5_Witness ==
    \E k \in DOMAIN lotteries :
        /\ Cardinality(WinnersOf(lotteries[k], "automovil")) >= 2
        /\ Cardinality(WinnersOf(lotteries[k], "motocicleta")) >= 1

\* C6: in every stored result the winners of each vehicle type are at most
\* the spots offered for that type.
C6_WinnersWithinOffer ==
    \A k \in DOMAIN lotteries : \A vt \in VehicleTypes :
        Cardinality(WinnersOf(lotteries[k], vt)) <= Offered(lotteries[k], vt)

\* C6 witness: a result whose car spots ran out: as many car winners as car
\* spots offered (at least one) and a car non-winner of another resident.
C6_Witness ==
    \E k \in DOMAIN lotteries :
        LET lot == lotteries[k] IN
        /\ lot.total_car_spots_offered >= 1
        /\ Cardinality(WinnersOf(lot, "automovil")) = lot.total_car_spots_offered
        /\ \E n \in DOMAIN lot.non_winners :
              /\ lot.non_winners[n].vehicle_type = "automovil"
              /\ \A i \in DOMAIN lot.winners : ~SamePair(lot.winners[i], lot.non_winners[n])

AcceptedOf(vehicle_type) ==
    {i \in DOMAIN last.accepted_requests :
        last.accepted_requests[i].vehicle_type = vehicle_type}

\* C7 (as claimed): when the accepted requests of a vehicle type are at most
\* the spots offered for it, every accepted request of that type is a winner
\* of the draw.
C7_AllWinWhenSpotsSuffice ==
    LastRan =>
        \A vt \in VehicleTypes :
            Cardinality(AcceptedOf(vt)) <= Offered(last.result, vt)
            => \A i \in AcceptedOf(vt) :
                  last.accepted_requests[i].id \in WinnerIds(last.result)

\* C7 (amended): when the accepted requests of a vehicle type are at most the
\* spots offered for it, every candidate of that type (an accepted request
\* whose user was found) that no candidate of the same user and type precedes
\* in the final order is a winner of the draw.
C7_FirstOfPairWinsWhenSpotsSuffice ==
    LastRan =>
        LET f == last.final_sorted_requests IN
        \A vt \in VehicleTypes :
            Cardinality(AcceptedOf(vt)) <= Offered(last.result, vt)
            => \A j \in DOMAIN f :
                  (/\ f[j].request.vehicle_type = vt
                   /\ \A i \in 1..(j - 1) :
                         ~(/\ f[i].user.id = f[j].user.id
                           /\ f[i].request.vehicle_type = vt))
                  => f[j].request.id \in WinnerIds(last.result)

\* C7 witness: a draw with enough car spots for all accepted car requests,
\* of which one won and one (skipped or a duplicate of its pair) did not.
C7_Witness ==
    /\ LastRan
    /\ Cardinality(AcceptedOf("automovil")) <= Offered(last.result, "automovil")
    /\ \E i, j \in AcceptedOf("automovil") :
          /\ last.accepted_requests[i].id \in WinnerIds(last.result)
          /\ last.accepted_requests[j].id \notin WinnerIds(last.result)

\* the accepted requests of the period that find_many returns from a store
LoadedFrom(request_coll, period) ==
    {i \in DOMAIN request_coll :
        /\ request_coll[i].lottery_period = period
        /\ request_coll[i].status = "accepted"}

\* C8: every draw that stores a result puts each accepted request whose user
\* exists exactly once, by its request_id, in winners or non_winners and no
\* other request anywhere, so that |winners| + |non_winners| is the number of
\* accepted requests loaded minus the number whose user is not found.
C8_Conservation ==
    [][lotteries' # lotteries =>
        LET lot == lotteries'[Len(lotteries')]
            e == Entries(lot)
            loaded == LoadedFrom(requests, lot.period)
            skipped == {i \in loaded :
                          \A u \in DOMAIN users : users[u].id # requests[i].user_id}
        IN /\ \A i \in loaded \ skipped :
                 Cardinality({n \in DOMAIN e : e[n].request_id = requests[i].id}) = 1
           /\ \A n \in DOMAIN e :
                 \E i \in loaded \ skipped : e[n].request_id = requests[i].id
           /\ Len(lot.winners) + Len(lot.non_winners)
                = Cardinality(loaded) - Cardinality(skipped)
    ]_vars

\* C8 witness: a draw that skipped a request, with a winner and a non-winner.
C8_Witness ==
    /\ LastRan
    /\ Len(last.requests_with_user_info) < Len(last.accepted_requests)
    /\ last.result.winners # <<>>
    /\ last.result.non_winners # <<>>

\* C14: a call of execute_lottery for a period with no stored result and no
\* accepted request answers 201 and appends a result with no winners, no
\* non-winners and the offered totals of the call; a call for a period whose
\* stored result is such an empty one answers 409.
C14_EmptyRunIsStored ==
    [][(last' # last /\ last'.op = "execute_lottery") =>
        /\ (/\ \A k \in DOMAIN lotteries : lotteries[k].period # last'.period
            /\ LoadedFrom(requests, last'.period) = {})
           => /\ last'.status = 201
              /\ last'.result.winners = <<>>
              /\ last'.result.non_winners = <<>>
              /\ last'.result.total_car_spots_offered = last'.num_car_spots
              /\ last'.result.total_moto_spots_offered = last'.num_moto_spots
              /\ last'.result.period = last'.period
              /\ lotteries' = Append(lotteries, last'.result)
        /\ (\E k \in DOMAIN lotteries :
               /\ lotteries[k].period = last'.period
               /\ Entries(lotteries[k]) = <<>>)
           => last'.status = 409 /\ lotteries' = lotteries
    ]_vars

\* C14 witness: a call answered 409 for a period whose stored result is
\* empty with 2 car spots and 1 motorcycle spot offered, no request being
\* stored.
C14_Witness ==
    /\ requests = <<>>
    /\ last.op = "execute_lottery"
    /\ last.status = 409
    /\ \E k \in DOMAIN lotteries :
          /\ lotteries[k].period = last.period
          /\ Entries(lotteries[k]) = <<>>
          /\ lotteries[k].total_car_spots_offered = 2
          /\ lotteries[k].total_moto_spots_offered = 1

\* C15: in every draw an accepted request whose user is not in the users
\* collection is in neither winners nor non_winners and takes no spot (the
\* winners of a vehicle type are as many as the spots offered or, if fewer,
\* the residents found that asked for that type), and the call answers 201
\* with every other accepted request in the stored result.
C15_MissingResidentSkipped ==
    [][(Len(lotteries') > Len(lotteries) /\ last'.accepted_requests # <<>>) =>
        LET lot == last'.result
            loaded == last'.accepted_requests
            e == Entries(lot)
            skipped == {i \in DOMAIN loaded :
                          \A u \in DOMAIN users : users[u].id # loaded[i].user_id}
            found(vt) == {loaded[i].user_id :
                            i \in {j \in DOMAIN loaded \ skipped :
                                      loaded[j].vehicle_type = vt}}
        IN /\ last'.status = 201
           /\ lotteries' = Append(lotteries, lot)
           /\ \A i \in skipped :
                 \A n \in DOMAIN e : e[n].request_id # loaded[i].id
           /\ \A i \in DOMAIN loaded \ skipped :
                 \E n \in DOMAIN e : e[n].request_id = loaded[i].id
           /\ \A vt \in VehicleTypes :
                 Cardinality(WinnersOf(lot, vt))
                   = IF Offered(lot, vt) <= Cardinality(found(vt))
                     THEN Offered(lot, vt) ELSE Cardinality(found(vt))
    ]_vars

\* C15 witness: a draw with one car spot in which a car request of a deleted
\* user was loaded and skipped and the car request of another user won.
C15_Witness ==
    /\ LastRan
    /\ last.result.total_car_spots_offered = 1
    /\ \E i \in DOMAIN last.accepted_requests :
          /\ last.accepted_requests[i].vehicle_type = "automovil"
          /\ \A u \in DOMAIN users : users[u].id # last.accepted_requests[i].user_id
          /\ \A n \in DOMAIN Entries(last.result) :
                Entries(last.result)[n].request_id # last.accepted_requests[i].id
    /\ \E w \in DOMAIN last.result.winners :
          last.result.winners[w].vehicle_type = "automovil"

\* the label of spot n of a category: C-01, C-02, ... or M-01, M-02, ...
SpotLabel(vehicle_type, n) ==
    <<IF vehicle_type = "automovil" THEN "C" ELSE "M", "-">> \o FormatInt(n, 2)

\* C24: in every stored result every winner holds a spot of the offer of its
\* own category (a car winner one of C-01..C-n, n the car spots offered; a
\* motorcycle winner one of M-01..M-m) and every non-winner holds no spot.
C24_SpotOfOwnCategory ==
    \A k \in DOMAIN lotteries :
        LET lot == lotteries[k] IN
        /\ \A i \in DOMAIN lot.winners :
              LET w == lot.winners[i] IN
              /\ w.spot # <<>>
              /\ \E n \in 1..Offered(lot, w.vehicle_type) :
                    w.spot = SpotLabel(w.vehicle_type, n)
        /\ \A i \in DOMAIN lot.non_winners : lot.non_winners[i].spot = <<>>

\* C24 witness: a stored result with a car winner on C-01, a motorcycle
\* winner on M-01 and a non-winner.
C24_Witness ==
    \E k \in DOMAIN lotteries :
        LET lot == lotteries[k] IN
        /\ \E i \in DOMAIN lot.winners :
              /\ lot.winners[i].vehicle_type = "automovil"
              /\ lot.winners[i].spot = <<"C", "-", "0", "1">>
        /\ \E i \in DOMAIN lot.winners :
              /\ lot.winners[i].vehicle_type = "motocicleta"
              /\ lot.winners[i].spot = <<"M", "-", "0", "1">>
        /\ lot.non_winners # <<>>

\* the residents with an entry of a category in a result
PairsOf(lot, vehicle_type) ==
    {Entries(lot)[i].user_id :
        i \in {i \in DOMAIN Entries(lot) : Entries(lot)[i].vehicle_type = vehicle_type}}

\* C26: in every stored result the number of winners of a category is the
\* smaller of the spots offered for it and the number of distinct residents
\* with an entry of that category, whatever the other category holds.
C26_NoSpotLeftWhilePairWaits ==
    \A k \in DOMAIN lotteries :
        \A vehicle_type \in VehicleTypes :
            LET lot == lotteries[k]
                offered == Offered(lot, vehicle_type)
                pairs == Cardinality(PairsOf(lot, vehicle_type))
            IN Cardinality(WinnersOf(lot, vehicle_type))
                 = IF offered <= pairs THEN offered ELSE pairs

\* C26 witness: a stored result where two residents asked for the one car
\* spot offered (one wins) and one of them also asked for a motorcycle spot,
\* two being offered (it wins, one spot stays free).
C26_Witness ==
    \E k \in DOMAIN lotteries :
        LET lot == lotteries[k] IN
        /\ lot.total_car_spots_offered = 1
        /\ Cardinality(PairsOf(lot, "automovil")) = 2
        /\ Cardinality(WinnersOf(lot, "automovil")) = 1
        /\ lot.total_moto_spots_offered = 2
        /\ Cardinality(WinnersOf(lot, "motocicleta")) = 1
        /\ \E i, j \in DOMAIN lot.winners :
              /\ lot.winners[i].user_id = lot.winners[j].user_id
              /\ lot.winners[i].vehicle_type # lot.winners[j].vehicle_type

----------------------------------------------------------------------------
(* SpecPeriods: the lotteries of two consecutive months, run one call at   *)
(* a time in any order over a store of at most NumPeriodRequests accepted  *)
(* car requests with every combination of the priority flags.              *)

\* largest number of request documents in the store of SpecPeriods
NumPeriodRequests == 2

PeriodInputs ==
    [user_id : UserIds, vehicle_type : {"automovil"}, disability : BOOLEAN,
     pay : BOOLEAN, lottery_period : Periods]

InitPeriods == InitStore(PeriodInputs, NumPeriodRequests) /\ tasks = <<>>

NextPeriods ==
    \E period \in Periods, num_car_spots \in 0..MaxSpots :
        ExecuteLottery(period, num_car_spots, 0)

SpecPeriods == InitPeriods /\ [][NextPeriods]_vars

\* C2: a call of execute_lottery for a period that already has a stored
\* result returns 409 and leaves the whole lotteries collection as it was,
\* whatever the spot counts and the requests.
C2_RerunIsConflict ==
    [][(\E k \in DOMAIN lotteries : lotteries[k].period = last'.period)
         => (last'.status = 409 /\ lotteries' = lotteries)]_vars

\* C2 witness: a call returned 409 while the results of both periods are
\* stored.
C2_Witness ==
    /\ last.op = "execute_lottery"
    /\ last.status = 409
    /\ \A p \in Periods : \E k \in DOMAIN lotteries : lotteries[k].period = p

\* the user ids among the non_winners of the stored results of a period
NonWinnerIds(lots, period) ==
    UNION {{lots[k].non_winners[n].user_id : n \in DOMAIN lots[k].non_winners}
           : k \in {k \in DOMAIN lots : lots[k].period = period}}

\* the residents that lost the month before: 2024-12 is the month before
\* 2025-01, and no lottery of 2024-11 is ever stored
BoostSet(lots, period) ==
    IF period = PeriodCur THEN NonWinnerIds(lots, PeriodPrev) ELSE {}

BoolInt(b) == IF b THEN 1 ELSE 0

\* C10: in every draw the score of every candidate is
\* 1000*disability + 500*(user lost the previous month) + 100*pay.
C10_ScoreIsWeightedSum ==
    [][lotteries' # lotteries =>
        \A i \in DOMAIN last'.requests_with_user_info :
            LET item == last'.requests_with_user_info[i] IN
            item.priority_score =
                1000 * BoolInt(item.request.disability)
                + 500 * BoolInt(item.user.id \in BoostSet(lotteries, last'.period))
                + 100 * BoolInt(item.request.pay)
    ]_vars

\* C10 witness: a draw with a candidate that has all three conditions.
C10_Witness ==
    /\ LastRan
    /\ \E i \in DOMAIN last.requests_with_user_info :
          /\ last.requests_with_user_info[i].priority_score = 1600
          /\ last.requests_with_user_info[i].request.disability
          /\ last.requests_with_user_info[i].request.pay

\* C11: in the final order of every draw, whatever the shuffle, every
\* candidate whose request has disability set comes before every candidate
\* whose request has not.
C11_DisabilityFirst ==
    LastRan =>
        LET f == last.final_sorted_requests IN
        \A i, j \in DOMAIN f :
            (f[i].request.disability /\ ~f[j].request.disability) => i < j

\* C11 witness: a draw in which a paying candidate without disability was
\* loaded before a non-paying candidate with disability and walked after it.
C11_Witness ==
    /\ LastRan
    /\ LET r == last.requests_with_user_info
           f == last.final_sorted_requests
       IN \E i, j \in DOMAIN r :
             /\ i < j
             /\ ~r[i].request.disability /\ r[i].request.pay
             /\ r[j].request.disability /\ ~r[j].request.pay
             /\ \E a, b \in DOMAIN f :
                   /\ a < b
                   /\ f[a].request.id = r[j].request.id
                   /\ f[b].request.id = r[i].request.id

\* an entry of the walk lost for want of a spot: its request is no winner
\* and no winner of the result has its (user, vehicle type) pair
LostForWantOfSpot(lot, item) ==
    /\ item.request.id \notin WinnerIds(lot)
    /\ \A i \in DOMAIN lot.winners :
          ~(/\ lot.winners[i].user_id = item.user.id
            /\ lot.winners[i].vehicle_type = item.request.vehicle_type)

\* C25: in every draw, whatever the shuffle, when a candidate lost because
\* the spots of its category ran out, no candidate of that category with a
\* strictly lower priority score won.
C25_StrictPriority ==
    LastRan =>
        LET f == last.final_sorted_requests IN
        \A i, j \in DOMAIN f :
            (/\ f[i].request.vehicle_type = f[j].request.vehicle_type
             /\ f[j].priority_score < f[i].priority_score
             /\ LostForWantOfSpot(last.result, f[i]))
            => f[j].request.id \notin WinnerIds(last.result)

\* C25 witness: one car spot; a request with pay only (score 100) was loaded
\* before a request with disability only (score 1000); the second won and
\* the first is a non-winner without a spot.
C25_Witness ==
    /\ LastRan
    /\ last.num_car_spots = 1
    /\ LET r == last.requests_with_user_info IN
       /\ Len(r) = 2
       /\ r[1].priority_score = 100 /\ r[1].request.pay
       /\ r[2].priority_score = 1000 /\ r[2].request.disability
       /\ r[1].user.id # r[2].user.id
       /\ WinnerIds(last.result) = {r[2].request.id}
       /\ Len(last.result.non_winners) = 1
       /\ last.result.non_winners[1].request_id = r[1].request.id
       /\ last.result.non_winners[1].spot = <<>>

\* the rearrangements of a sequence
PermutationsOf(s) ==
    {[i \in DOMAIN s |-> s[g[i]]] :
        g \in {h \in [DOMAIN s -> DOMAIN s] : \A a, b \in DOMAIN s : h[a] = h[b] => a = b}}

NonIncreasingScores(s) ==
    \A i, j \in DOMAIN s : i < j => s[i].priority_score >= s[j].priority_score

\* C27: in every draw the final order is a rearrangement of the scored
\* candidates with non-increasing scores, and every such rearrangement is a
\* possible final order: between candidates of equal score either may come
\* first, whatever the order in which their requests were loaded.
C27_TieBreakIgnoresSubmissionOrder ==
    LastRan =>
        LET r == last.requests_with_user_info
            ordered == {p \in PermutationsOf(r) : NonIncreasingScores(p)}
        IN /\ last.final_sorted_requests \in ordered
           /\ FinalSortedRequests(r) = ordered

\* C27 witness: two candidates of equal score and one car spot; the request
\* loaded second won and the request loaded first did not.
C27_Witness ==
    /\ LastRan
    /\ last.num_car_spots = 1
    /\ LET r == last.requests_with_user_info IN
       /\ Len(r) = 2
       /\ r[1].priority_score = r[2].priority_score
       /\ r[1].user.id # r[2].user.id
       /\ WinnerIds(last.result) = {r[2].request.id}
       /\ last.final_sorted_requests = <<r[2], r[1]>>

----------------------------------------------------------------------------
(* SpecCarry: the lotteries of three consecutive months, run and deleted   *)
(* one call at a time in any order over a store of at most                 *)
(* NumCarryRequests accepted car requests.                                 *)

\* largest number of request documents in the store of SpecCarry
NumCarryRequests == 2
\* largest number of lottery results SpecCarry ever creates
MaxCarryRuns == 3

\* the month after PeriodCur
PeriodNext == <<"2", "0", "2", "5", "-", "0", "2">>
CarryPeriods == {PeriodPrev, PeriodCur, PeriodNext}

CarryInputs ==
    [user_id : UserIds, vehicle_type : {"automovil"}, disability : {FALSE},
     pay : {FALSE}, lottery_period : CarryPeriods]

InitCarry == InitStore(CarryInputs, NumCarryRequests) /\ tasks = <<>>

NextCarry ==
    \/ \E period \in CarryPeriods, num_car_spots \in 0..1 :
          nextOid < MaxCarryRuns /\ ExecuteLottery(period, num_car_spots, 0)
    \/ \E lottery_period \in CarryPeriods : DeleteLotteryResult(lottery_period)

SpecCarry == InitCarry /\ [][NextCarry]_vars

\* the number of the calendar month a 'YYYY-MM' period names
MonthIndex(period) ==
    12 * ParseInt(SubSeq(period, 1, 4)) + ParseInt(SubSeq(period, 6, 7))

\* the user ids among the non_winners of the stored results of the month
\* immediately before period
LostMonthBefore(lots, period) ==
    UNION {NonWinnerIds(lots, lots[k].period) :
             k \in {k \in DOMAIN lots : MonthIndex(lots[k].period) + 1 = MonthIndex(period)}}

\* C12: in every draw the residents that receive the +500 are exactly those
\* listed in the non_winners of the stored result of the immediately
\* preceding calendar month; the result of the month before that one adds
\* nothing.
C12_CarryForward ==
    [][(Len(lotteries') > Len(lotteries) /\ last'.accepted_requests # <<>>) =>
        LET boosted == LostMonthBefore(lotteries, last'.period) IN
        /\ Range(last'.previous_non_winners_ids) = boosted
        /\ \A i \in DOMAIN last'.requests_with_user_info :
              LET item == last'.requests_with_user_info[i] IN
              item.priority_score
                - 1000 * BoolInt(item.request.disability)
                - 100 * BoolInt(item.request.pay)
              = IF item.user.id \in boosted THEN 500 ELSE 0
    ]_vars

\* C12 witness: the draw of 2025-02 gave no boost to a resident who is a
\* non-winner of the stored result of 2024-12, the result of 2025-01 being
\* stored too.
C12_Witness ==
    /\ LastRan
    /\ last.period = PeriodNext
    /\ \E k \in DOMAIN lotteries : lotteries[k].period = PeriodCur
    /\ \E i \in DOMAIN last.requests_with_user_info :
          LET item == last.requests_with_user_info[i] IN
          /\ item.priority_score = 0
          /\ item.user.id \in NonWinnerIds(lotteries, PeriodPrev)

\* C18: delete_lottery_result never changes users or requests; it answers
\* 404 and leaves the lotteries collection as it was when no result of the
\* period is stored; otherwise it answers 204 and the collection is the
\* former one without the result of that period, the results of the other
\* periods being kept as they were.
C18_DeleteRemovesOnlyThePeriod ==
    [][(last' # last /\ last'.op = "delete_lottery_result") =>
        /\ users' = users
        /\ requests' = requests
        /\ IF StoredAt(lotteries, last'.period) = {}
           THEN last'.status = 404 /\ lotteries' = lotteries
           ELSE /\ last'.status = 204
                /\ StoredAt(lotteries', last'.period) = {}
                /\ lotteries' = SelectSeq(lotteries,
                                          LAMBDA lot : lot.period # last'.period)
    ]_vars

\* C18 witness: delete_lottery_result answered 204 for the first of three
\* stored results; the results of the two other periods are still stored.
C18_Witness ==
    /\ last.op = "delete_lottery_result"
    /\ last.status = 204
    /\ Len(lotteries) = 2
    /\ nextOid = 3
    /\ \A k \in DOMAIN lotteries : lotteries[k].id > 1

----------------------------------------------------------------------------
(* SpecResolver: execute_lottery behind its endpoint, for every period the *)
(* pattern of LotteryCreate and RequestCreate accepts over a small         *)
(* alphabet.  The store holds no request or one accepted request.          *)

\* the characters of the periods submitted
ResolverChars == {"0", "1", "9", "-"}

\* the periods RequestCreate.lottery_period accepts
ResolverPeriods == {s \in [1..7 -> ResolverChars] : ValidPeriod(s)}

ResolverInputs ==
    [user_id : {"u1"}, vehicle_type : {"automovil"}, disability : {FALSE},
     pay : {FALSE}, lottery_period : ResolverPeriods]

\* POST /execute: LotteryCreate validates the body (422), then the service
\* runs; an exception of the resolver is a 500
ExecuteLotteryEndpoint(period, num_car_spots, num_moto_spots) ==
    IF ~ValidPeriod(period)
    THEN /\ last' = [op |-> "execute_lottery", status |-> 422, period |-> period]
         /\ UNCHANGED <<users, requests, lotteries, nextOid, tasks>>
    ELSE IF /\ ExistingLottery(lotteries, period) = <<>>
            /\ FindMany(requests, [lottery_period |-> period, status |-> "accepted"],
                        0, AcceptedRequestsLimit) # <<>>
            /\ ResolverRaises(period)
    THEN /\ last' = [op |-> "execute_lottery", status |-> 500, period |-> period]
         /\ UNCHANGED <<users, requests, lotteries, nextOid, tasks>>
    ELSE ExecuteLottery(period, num_car_spots, num_moto_spots)

InitResolver ==
    /\ users = AllUsers
    /\ requests \in {<<>>} \cup {<<RequestDoc(1, in, "accepted")>> : in \in ResolverInputs}
    /\ lotteries = <<>>
    /\ nextOid = 0
    /\ last = NoCall
    /\ tasks = <<>>

NextResolver ==
    \E period \in Periods \cup {requests[i].lottery_period : i \in DOMAIN requests},
       num_car_spots \in 0..1 :
        ExecuteLotteryEndpoint(period, num_car_spots, 0)

SpecResolver == InitResolver /\ [][NextResolver]_vars

\* C13: a call of execute_lottery for a period the pattern accepts never
\* fails: it answers 201 or 409; a 201 only appends a result to the stored
\* ones, and its carry-forward list is empty when no result of the month
\* before is stored; a 409 leaves the stored results as they were.
C13_ResolverNeverFails ==
    [][(last' # last /\ last'.op = "execute_lottery") =>
        /\ last'.status \in {201, 409}
        /\ last'.status = 201 =>
              /\ Len(lotteries') = Len(lotteries) + 1
              /\ SubSeq(lotteries', 1, Len(lotteries)) = lotteries
              /\ (\A k \in DOMAIN lotteries :
                     MonthIndex(lotteries[k].period) + 1 # MonthIndex(last'.period))
                 => last'.previous_non_winners_ids = <<>>
        /\ last'.status = 409 => lotteries' = lotteries
    ]_vars

\* C13 witness: a draw with a candidate for a period of month 01 of the
\* year 0000 was stored after the results of two other periods.
C13_Witness ==
    /\ LastRan
    /\ last.period = <<"0", "0", "0", "0", "-", "0", "1">>
    /\ last.requests_with_user_info # <<>>
    /\ Len(lotteries) = 3
    /\ lotteries[3] = last.result

----------------------------------------------------------------------------
(* SpecQuery: the lottery of PeriodCur and the two read endpoints, one     *)
(* call at a time over a store of at most NumQueryRequests accepted        *)
(* requests of both vehicle types.                                         *)

\* largest number of request documents in the store of SpecQuery
NumQueryRequests == 3

QueryInputs ==
    [user_id : UserIds, vehicle_type : VehicleTypes, disability : {FALSE},
     pay : {FALSE}, lottery_period : {PeriodCur}]

\* the vehicle_type query parameter: absent or one of the two types
VehicleTypeFilters == {<<>>} \cup {<<vt>> : vt \in VehicleTypes}

InitQuery == InitStore(QueryInputs, NumQueryRequests) /\ tasks = <<>>

NextQuery ==
    \/ \E num_car_spots \in 0..1, num_moto_spots \in 0..1 :
          ExecuteLottery(PeriodCur, num_car_spots, num_moto_spots)
    \/ \E lottery_period \in Periods, vehicle_type \in VehicleTypeFilters :
          GetLotteryResult(lottery_period, vehicle_type)
    \/ \E user_id \in UserIds, lottery_period \in Periods :
          GetMyAssignment(user_id, lottery_period)

SpecQuery == InitQuery /\ [][NextQuery]_vars

\* whether sub holds exactly the elements of full that satisfy keep, in the
\* order of full
IsSelection(sub, full, keep(_)) ==
    \E pos \in [DOMAIN sub -> DOMAIN full] :
        /\ \A i, j \in DOMAIN sub : i < j => pos[i] < pos[j]
        /\ \A i \in DOMAIN sub : sub[i] = full[pos[i]]
        /\ \A k \in DOMAIN full : keep(full[k]) <=> \E i \in DOMAIN sub : pos[i] = k

\* C16: get_lottery_result never changes the lotteries collection; it answers
\* 404 when no result of the period is stored; otherwise it answers the
\* stored result with the non_winners as stored and the winners as stored
\* when no vehicle_type is given, or exactly the stored winners of that
\* vehicle_type in their stored order when one is.
C16_GetResultFilters ==
    [][(last' # last /\ last'.op = "get_lottery_result") =>
        /\ lotteries' = lotteries
        /\ IF StoredAt(lotteries, last'.period) = {}
           THEN last'.status = 404
           ELSE LET lot == lotteries[Min(StoredAt(lotteries, last'.period))]
                    out == last'.result
                IN /\ last'.status = 200
                   /\ out.non_winners = lot.non_winners
                   /\ out.period = lot.period /\ out.id = lot.id
                   /\ out.total_car_spots_offered = lot.total_car_spots_offered
                   /\ out.total_moto_spots_offered = lot.total_moto_spots_offered
                   /\ IF last'.vehicle_type = <<>>
                      THEN out.winners = lot.winners
                      ELSE IsSelection(out.winners, lot.winners,
                                       LAMBDA w : w.vehicle_type = last'.vehicle_type[1])
    ]_vars

\* C16 witness: get_lottery_result with vehicle_type automovil answered one
\* car winner and a motorcycle non-winner from a stored result that has a
\* motorcycle winner too.
C16_Witness ==
    /\ last.op = "get_lottery_result"
    /\ last.status = 200
    /\ last.vehicle_type = <<"automovil">>
    /\ Len(last.result.winners) = 1
    /\ \E n \in DOMAIN last.result.non_winners :
          last.result.non_winners[n].vehicle_type = "motocicleta"
    /\ \E k \in DOMAIN lotteries :
          /\ lotteries[k].period = last.period
          /\ WinnersOf(lotteries[k], "motocicleta") # {}
          /\ WinnersOf(lotteries[k], "automovil") # {}

\* C17: get_my_assignment never fails and never changes the lotteries
\* collection; it answers the empty list when no result of the period is
\* stored, and otherwise one assignment, with its spot, for each stored
\* winner entry of the user, in stored order, and nothing else.
C17_MyAssignmentsAreMyWins ==
    [][(last' # last /\ last'.op = "get_my_assignment") =>
        /\ lotteries' = lotteries
        /\ last'.status = 200
        /\ IF StoredAt(lotteries, last'.period) = {}
           THEN last'.my_assignments = <<>>
           ELSE LET lot == lotteries[Min(StoredAt(lotteries, last'.period))]
                    as_out == [k \in DOMAIN lot.winners |->
                                 [period |-> last'.period,
                                  vehicle_type |-> lot.winners[k].vehicle_type,
                                  license_plate |-> lot.winners[k].license_plate,
                                  spot |-> lot.winners[k].spot]]
                    mine == {k \in DOMAIN lot.winners :
                                lot.winners[k].user_id = last'.user_id}
                IN /\ \E pos \in [DOMAIN last'.my_assignments -> mine] :
                         /\ \A i, j \in DOMAIN last'.my_assignments :
                               i < j => pos[i] < pos[j]
                         /\ \A i \in DOMAIN last'.my_assignments :
                               last'.my_assignments[i] = as_out[pos[i]]
                         /\ \A k \in mine :
                               \E i \in DOMAIN last'.my_assignments : pos[i] = k
                   /\ \A i \in DOMAIN last'.my_assignments :
                         last'.my_assignments[i].spot # <<>>
    ]_vars

\* C17 witness: get_my_assignment answered a car and a motorcycle assignment
\* to a user who is also a non-winner of the stored result.
C17_Witness ==
    /\ last.op = "get_my_assignment"
    /\ Len(last.my_assignments) = 2
    /\ last.my_assignments[1].vehicle_type # last.my_assignments[2].vehicle_type
    /\ \E k \in DOMAIN lotteries :
          /\ lotteries[k].period = last.period
          /\ \E n \in DOMAIN lotteries[k].non_winners :
                lotteries[k].non_winners[n].user_id = last.user_id

----------------------------------------------------------------------------
(* SpecRace: execute_lottery as the coroutine it is.  Each await of a      *)
(* database call is a point where the event loop may run another request,  *)
(* so a call is a sequence of steps.  The awaits of the user loop are one  *)
(* step (user_cache looks each user up once, so a delete_user between two  *)
(* lookups acts as one before the loop), and the code between the last     *)
(* user lookup and insert_one has no await.                                *)

\* number of concurrent execute_lottery calls
NumTasks == 2
\* largest number of request documents in the store of SpecRace
NumRaceRequests == 1

TaskIds == 1..NumTasks

RaceInputs ==
    [user_id : UserIds, vehicle_type : {"automovil"}, disability : {FALSE},
     pay : {FALSE}, lottery_period : {PeriodCur}]

\* the unique indexes create_indexes builds: two on users, none on lotteries
UniqueIndexes ==
    [users |-> {"email", "cc"}, requests |-> {}, lotteries |-> {}]

\* whether insert_one is refused with DuplicateKeyError
DuplicateKey(coll, doc, fields) ==
    \E f \in fields : \E i \in DOMAIN coll : coll[i][f] = doc[f]

\* the entries _send_lottery_notifications walks: the winners, then the
\* non_winners when notify_non_winners is set
NotificationEntries(lottery_result, notify_non_winners) ==
    lottery_result.winners
    \o (IF notify_non_winners THEN lottery_result.non_winners ELSE <<>>)

\* what can happen to the mail of one entry: no call of _send_email when the
\* user or its email is missing; otherwise resend.Emails.send returns or raises
SendOutcomes(user) ==
    IF user = <<>> \/ user[1].email = <<>> THEN {"no_email"}
    ELSE {"sent", "send_error"}

\* mutant of NotifyContinuation: no try/except around resend.Emails.send
NotifyContinuationRaises(outcome, k, n) ==
    IF outcome = "send_error" THEN [pc |-> "done", status |-> 500]
    ELSE IF k < n THEN [pc |-> "notify", status |-> 0]
    ELSE [pc |-> "done", status |-> 201]

\* where execute_lottery goes after entry k of n: the exception of a send is
\* caught and printed, the loop goes on, and the call returns after the last
NotifyContinuation(outcome, k, n) ==
    IF k < n THEN [pc |-> "notify", status |-> 0]
    ELSE [pc |-> "done", status |-> 201]

IdleTask ==
    [pc |-> "idle", period |-> <<>>, num_car_spots |-> 0, num_moto_spots |-> 0,
     accepted_requests |-> <<>>, previous_non_winners_ids |-> <<>>,
     new_lottery_result |-> <<>>, inserted_id |-> 0, created_lottery |-> <<>>,
     notified |-> <<>>, status |-> 0]

\* the endpoint receives a LotteryCreate and calls the service
StartExecute(t, period, num_car_spots, num_moto_spots) ==
    /\ tasks[t].pc = "idle"
    /\ tasks' = [tasks EXCEPT ![t] = [@ EXCEPT !.pc = "check", !.period = period,
                                               !.num_car_spots = num_car_spots,
                                               !.num_moto_spots = num_moto_spots]]
    /\ UNCHANGED <<users, requests, lotteries, nextOid, last>>

\* await find_one({"period": ...}) and the 409
ExecCheck(t) ==
    /\ tasks[t].pc = "check"
    /\ tasks' = [tasks EXCEPT ![t] =
                    IF ExistingLottery(lotteries, tasks[t].period) # <<>>
                    THEN [@ EXCEPT !.pc = "done", !.status = 409]
                    ELSE [@ EXCEPT !.pc = "load"]]
    /\ UNCHANGED <<users, requests, lotteries, nextOid, last>>

\* await find_many(accepted requests of the period); an empty list goes
\* straight to create with the empty result
ExecLoad(t) ==
    /\ tasks[t].pc = "load"
    /\ LET self == tasks[t]
           accepted_requests ==
              FindMany(requests,
                       [lottery_period |-> self.period, status |-> "accepted"],
                       0, AcceptedRequestsLimit)
       IN tasks' = [tasks EXCEPT ![t] =
                       IF accepted_requests = <<>>
                       THEN [self EXCEPT !.pc = "insert",
                                         !.new_lottery_result =
                                             <<NewLotteryResult(self.period,
                                                                self.num_car_spots,
                                                                self.num_moto_spots,
                                                                <<>>)>>]
                       ELSE [self EXCEPT !.pc = "previous",
                                         !.accepted_requests = accepted_requests]]
    /\ UNCHANGED <<users, requests, lotteries, nextOid, last>>

\* await _get_previous_period_non_winners
ExecPrevious(t) ==
    /\ tasks[t].pc = "previous"
    /\ tasks' = [tasks EXCEPT ![t] =
                    [@ EXCEPT !.pc = "draw",
                              !.previous_non_winners_ids =
                                  GetPreviousPeriodNonWinners(lotteries,
                                                              tasks[t].period)]]
    /\ UNCHANGED <<users, requests, lotteries, nextOid, last>>

\* the user lookups, the scoring, the shuffle and the walk
ExecDraw(t) ==
    /\ tasks[t].pc = "draw"
    /\ LET self == tasks[t]
           requests_with_user_info ==
              ScoreAll(RequestsWithUserInfo(self.accepted_requests, users),
                       self.previous_non_winners_ids)
       IN \E final_sorted_requests \in FinalSortedRequests(requests_with_user_info) :
             tasks' = [tasks EXCEPT ![t] =
                          [self EXCEPT !.pc = "insert",
                                       !.new_lottery_result =
                                           <<NewLotteryResult(self.period,
                                                              self.num_car_spots,
                                                              self.num_moto_spots,
                                                              final_sorted_requests)>>]]
    /\ UNCHANGED <<users, requests, lotteries, nextOid, last>>

\* BaseRepository.create: await insert_one
ExecInsert(t) ==
    /\ tasks[t].pc = "insert"
    /\ IF DuplicateKey(lotteries, tasks[t].new_lottery_result[1], UniqueIndexes.lotteries)
       THEN /\ tasks' = [tasks EXCEPT ![t] = [@ EXCEPT !.pc = "done", !.status = 500]]
            /\ UNCHANGED <<lotteries, nextOid>>
       ELSE /\ lotteries' = Create(lotteries, tasks[t].new_lottery_result[1], nextOid + 1)
            /\ nextOid' = nextOid + 1
            /\ tasks' = [tasks EXCEPT ![t] = [@ EXCEPT !.pc = "created",
                                                       !.inserted_id = nextOid + 1]]
    /\ UNCHANGED <<users, requests, last>>

\* BaseRepository.create: await find_one({"_id": inserted_id}), RuntimeError
\* (a 500) when the document is gone.  The branch of no accepted request
\* returns here; the draw goes on to _send_lottery_notifications, which
\* returns at once when the result has no entry.
ExecReturn(t) ==
    /\ tasks[t].pc = "created"
    /\ LET self == tasks[t]
           created_lottery == Get(lotteries, self.inserted_id)
       IN tasks' = [tasks EXCEPT ![t] =
             IF created_lottery = <<>>
             THEN [self EXCEPT !.pc = "done", !.status = 500]
             ELSE IF \/ self.accepted_requests = <<>>
                     \/ NotificationEntries(created_lottery[1], TRUE) = <<>>
             THEN [self EXCEPT !.pc = "done", !.status = 201,
                               !.created_lottery = created_lottery]
             ELSE [self EXCEPT !.pc = "notify",
                               !.created_lottery = created_lottery]]
    /\ UNCHANGED <<users, requests, lotteries, nextOid, last>>

\* one iteration of the loops of _send_lottery_notifications: await
\* user_repository.get, then _send_email unless the user or its email is
\* missing; after the last entry execute_lottery returns created_lottery
ExecNotify(t) ==
    /\ tasks[t].pc = "notify"
    /\ LET self == tasks[t]
           lottery_result == self.created_lottery[1]
           entries == NotificationEntries(lottery_result, TRUE)
           k == Len(self.notified) + 1
           user == Get(users, entries[k].user_id)
       IN \E outcome \in SendOutcomes(user) :
             LET go == NotifyContinuation(outcome, k, Len(entries)) IN
             tasks' = [tasks EXCEPT ![t] =
                [self EXCEPT !.pc = go.pc, !.status = go.status,
                             !.notified =
                                 Append(@, [request_id |-> entries[k].request_id,
                                            kind |-> IF k <= Len(lottery_result.winners)
                                                     THEN "winner" ELSE "non_winner",
                                            to |-> IF user = <<>> THEN <<>>
                                                   ELSE user[1].email,
                                            outcome |-> outcome])]]
    /\ UNCHANGED <<users, requests, lotteries, nextOid, last>>

InitRace ==
    /\ InitStore(RaceInputs, NumRaceRequests)
    /\ tasks = [t \in TaskIds |-> IdleTask]

NextRace ==
    \E t \in TaskIds :
        \/ \E period \in Periods, num_car_spots \in 0..1 :
              StartExecute(t, period, num_car_spots, 0)
        \/ ExecCheck(t)
        \/ ExecLoad(t)
        \/ ExecPrevious(t)
        \/ ExecDraw(t)
        \/ ExecInsert(t)
        \/ ExecReturn(t)
        \/ ExecNotify(t)

SpecRace == InitRace /\ [][NextRace]_vars

\* C1 (as claimed): under any interleaving of concurrent execute_lottery
\* calls, at most one call for a period answers 201 and the lotteries
\* collection holds at most one result of that period.
C1_AtMostOneResultPerPeriod ==
    \A p \in Periods :
        /\ Cardinality({k \in DOMAIN lotteries : lotteries[k].period = p}) <= 1
        /\ Cardinality({t \in TaskIds : /\ tasks[t].pc = "done"
                                        /\ tasks[t].status = 201
                                        /\ tasks[t].period = p}) <= 1

----------------------------------------------------------------------------
(* SpecLoad: the first steps of execute_lottery, up to the load of the     *)
(* accepted requests, over stores of about a thousand requests.  The store *)
(* begins with a few requests of every status and period and goes on with  *)
(* accepted requests of PeriodCur.                                         *)

\* largest number of accepted requests of PeriodCur after the first few
MaxAccepted == 1001
\* largest number of requests of any status and period at the head of the store
NumLoadPrefix == 1

RequestStatuses == {"pending", "accepted", "rejected"}

LoadInputs ==
    [user_id : {"u2"}, vehicle_type : {"automovil"}, disability : {FALSE},
     pay : {FALSE}, lottery_period : Periods]

BulkInput ==
    [user_id |-> "u1", vehicle_type |-> "automovil", disability |-> FALSE,
     pay |-> FALSE, lottery_period |-> PeriodCur]

\* the stores of k requests of any status and period followed by n accepted
\* requests of PeriodCur
LoadStores(k, n) ==
    {[i \in 1..(k + n) |->
         IF i <= k THEN RequestDoc(i, head[i][1], head[i][2])
                   ELSE RequestDoc(i, BulkInput, "accepted")] :
       head \in [1..k -> LoadInputs \X RequestStatuses]}

InitLoad ==
    /\ users = AllUsers
    /\ \E k \in 0..NumLoadPrefix :
          \E n \in {0} \cup ((AcceptedRequestsLimit - 1)..MaxAccepted) :
             requests \in LoadStores(k, n)
    /\ lotteries = <<>>
    /\ nextOid = 0
    /\ last = NoCall
    /\ tasks = [t \in TaskIds |-> IdleTask]

NextLoad ==
    \/ \E period \in Periods : StartExecute(1, period, 0, 0)
    \/ ExecCheck(1)
    \/ ExecLoad(1)

SpecLoad == InitLoad /\ [][NextLoad]_vars

\* the accepted requests of a period in the store
AcceptedOfPeriod(period) ==
    {requests[i] : i \in {j \in DOMAIN requests :
                             /\ requests[j].status = "accepted"
                             /\ requests[j].lottery_period = period}}

\* C9 (as claimed): the requests execute_lottery loads are exactly the
\* accepted requests of the requested period, every one of them, and no
\* request of another status or period.
C9_LoadsEveryAcceptedRequest ==
    \A t \in TaskIds :
        tasks[t].pc \in {"previous", "insert"} =>
            Range(tasks[t].accepted_requests) = AcceptedOfPeriod(tasks[t].period)

----------------------------------------------------------------------------
(* SpecNotify: execute_lottery calls one after the other, each step by     *)
(* step through its notifications, while delete_user requests are served   *)
(* between the awaits, over a store of at most NumNotifyRequests accepted  *)
(* car requests.                                                           *)

\* largest number of request documents in the store of SpecNotify
NumNotifyRequests == 2

NotifyInputs ==
    [user_id : UserIds, vehicle_type : {"automovil"}, disability : {FALSE},
     pay : {FALSE}, lottery_period : {PeriodCur}]

\* the endpoint has answered: the next POST /execute is taken
Respond(t) ==
    /\ tasks[t].pc = "done"
    /\ tasks' = [tasks EXCEPT ![t] = IdleTask]
    /\ UNCHANGED <<users, requests, lotteries, nextOid, last>>

InitNotify ==
    /\ InitStore(NotifyInputs, NumNotifyRequests)
    /\ tasks = [t \in TaskIds |-> IdleTask]

NextNotify ==
    \/ \E num_car_spots \in 0..1 : StartExecute(1, PeriodCur, num_car_spots, 0)
    \/ ExecCheck(1)
    \/ ExecLoad(1)
    \/ ExecPrevious(1)
    \/ ExecDraw(1)
    \/ ExecInsert(1)
    \/ ExecReturn(1)
    \/ ExecNotify(1)
    \/ Respond(1)
    \/ \E user_id \in UserIds : DeleteUser(user_id)

SpecNotify == InitNotify /\ [][NextNotify]_vars

\* the calls that returned 201 after a draw
ReturnedDraw(t) ==
    /\ tasks[t].pc = "done"
    /\ tasks[t].status = 201
    /\ tasks[t].accepted_requests # <<>>

\* the request ids of the entries of a result, winners first
EntryIds(lot) == [n \in DOMAIN Entries(lot) |-> Entries(lot)[n].request_id]

\* the mails handed to _send_email by a call, in order
Sends(t) == SelectSeq(tasks[t].notified, LAMBDA m : m.outcome # "no_email")

\* C19 (as claimed): when a call has returned 201 after a draw, _send_email
\* has been called exactly once for each winner entry and each non-winner
\* entry of the persisted result; a call that answered 409 has sent nothing.
C19_NotifierCalledPerEntry ==
    \A t \in TaskIds :
        /\ ReturnedDraw(t) =>
              [k \in DOMAIN Sends(t) |-> Sends(t)[k].request_id]
                = EntryIds(tasks[t].created_lottery[1])
        /\ tasks[t].status = 409 => tasks[t].notified = <<>>

\* C20: whatever happens to the mail of an entry (sent, an error of the
\* send, the user missing), the step leaves the lotteries collection as it
\* was and takes up the next entry of the persisted result, winners first and
\* each entry once; after the last entry the call answers 201 with the
\* persisted result, every entry having been taken up.
C20_NotificationFailureContained ==
    [][\A t \in TaskIds :
          /\ Len(tasks'[t].notified) > Len(tasks[t].notified) =>
                LET k == Len(tasks'[t].notified)
                    m == tasks'[t].notified[k]
                    lot == tasks[t].created_lottery[1]
                IN /\ lotteries' = lotteries
                   /\ SubSeq(tasks'[t].notified, 1, k - 1) = tasks[t].notified
                   /\ m.request_id = EntryIds(lot)[k]
                   /\ m.outcome \in {"sent", "send_error", "no_email"}
                   /\ tasks'[t].created_lottery = tasks[t].created_lottery
                   /\ IF k < Len(Entries(lot))
                      THEN tasks'[t].pc = "notify"
                      ELSE tasks'[t].pc = "done" /\ tasks'[t].status = 201
          /\ (tasks'[t].pc = "done" /\ tasks'[t].status = 201
              /\ tasks'[t].accepted_requests # <<>>) =>
                /\ tasks'[t].created_lottery # <<>>
                /\ Len(tasks'[t].notified) = Len(Entries(tasks'[t].created_lottery[1]))
    ]_vars

\* C20 witness: a call returned 201 after a draw although the send to the
\* winner raised; the non-winner after it was mailed, and the result is
\* stored as the call read it back.
C20_Witness ==
    \E t \in TaskIds :
        /\ ReturnedDraw(t)
        /\ Len(tasks[t].notified) = 2
        /\ tasks[t].notified[1].outcome = "send_error"
        /\ tasks[t].notified[2].outcome = "sent"
        /\ Get(lotteries, tasks[t].inserted_id) = tasks[t].created_lottery

----------------------------------------------------------------------------
(* Persistence of a run (SpecNotify).  A call that stops at any await is a *)
(* task that takes no further step, so every state of SpecNotify is one a  *)
(* reader of the lotteries collection can observe.                         *)

\* the steps of a call before its insert_one
BeforeInsert == {"check", "load", "previous", "draw", "insert"}

\* the call t has passed its insert_one
HasInserted(t) ==
    \/ tasks[t].pc \in {"created", "notify"}
    \/ tasks[t].pc = "done" /\ tasks[t].status = 201

\* the fields of a LotteryResult document
LotteryResultFields ==
    {"id", "period", "total_car_spots_offered", "total_moto_spots_offered",
     "winners", "non_winners"}

\* C21: a call that has passed its 409 check and not yet inserted has written
\* no record of its period; a call that has inserted has written, in one
\* step, the whole record it built (both totals, every winner, every
\* non-winner); and every stored record has all its fields and an entry for
\* every accepted request of its period whose resident is still registered.
C21_AllOrNothing ==
    /\ \A t \in TaskIds :
          /\ (tasks[t].pc \in BeforeInsert \ {"check"}) =>
                StoredAt(lotteries, tasks[t].period) = {}
          /\ HasInserted(t) =>
                Get(lotteries, tasks[t].inserted_id)
                  = <<[tasks[t].new_lottery_result[1] EXCEPT !.id = tasks[t].inserted_id]>>
    /\ \A k \in DOMAIN lotteries :
          /\ DOMAIN lotteries[k] = LotteryResultFields
          /\ \A i \in DOMAIN requests :
                (/\ requests[i].status = "accepted"
                 /\ requests[i].lottery_period = lotteries[k].period
                 /\ Get(users, requests[i].user_id) # <<>>)
                => requests[i].id \in Range(EntryIds(lotteries[k]))

\* C21 witness: a call has inserted and not yet returned; the record it wrote
\* holds a winner and a non-winner and both totals.
C21_Witness ==
    \E t \in TaskIds :
        /\ tasks[t].pc = "created"
        /\ LET lot == Get(lotteries, tasks[t].inserted_id)[1] IN
           /\ Len(lot.winners) = 1
           /\ Len(lot.non_winners) = 1
           /\ lot.total_car_spots_offered = 1
           /\ lot.total_moto_spots_offered = 0

----------------------------------------------------------------------------
(* The request and resident handlers (solicitudes/service.py,              *)
(* residentes/service.py), one request at a time.  An Optional field of an *)
(* update schema is a sequence of length 0 (unset) or 1.                   *)

\* update: find_one_and_update with $set; the collection after it
Update(coll, item_id, update_data) ==
    [i \in DOMAIN coll |->
        IF coll[i].id = item_id
        THEN [k \in DOMAIN coll[i] |->
                 IF k \in DOMAIN update_data THEN update_data[k] ELSE coll[i][k]]
        ELSE coll[i]]

\* count: count_documents
Count(coll, query) == Len(MatchingDocs(coll, query))

\* the default of User.vehicle_slots
DefaultVehicleSlots ==
    [automovil |-> [available |-> TRUE, request_id |-> <<>>],
     motocicleta |-> [available |-> TRUE, request_id |-> <<>>]]

\* a User document with its role and vehicle_slots
ResidentDoc(u, role) ==
    [id |-> u, cc |-> <<"cc", u>>, full_name |-> <<"name", u>>,
     apartment |-> <<"apt", u>>, email |-> <<"mail", u>>, role |-> role,
     vehicle_slots |-> DefaultVehicleSlots]

\* find_one of create_request: the first request of the user for the vehicle
\* type and period whose status is pending or accepted
ExistingRequest(request_coll, user_id, request_data) ==
    LET m == SelectSeq(request_coll,
                       LAMBDA d : /\ d.user_id = user_id
                                  /\ d.vehicle_type = request_data.vehicle_type
                                  /\ d.lottery_period = request_data.lottery_period
                                  /\ d.status \in {"pending", "accepted"})
    IN IF m = <<>> THEN <<>> ELSE <<Head(m)>>

\* RequestService.create_request; current_user is the user of the token,
\* which get_current_user has found in the users collection
CreateRequest(user_id, request_data) ==
    LET existing_request == ExistingRequest(requests, user_id, request_data)
        new_request ==
            RequestDoc(nextOid + 1,
                       [user_id |-> user_id,
                        vehicle_type |-> request_data.vehicle_type,
                        disability |-> request_data.disability,
                        pay |-> request_data.pay,
                        lottery_period |-> request_data.lottery_period],
                       "pending")
    IN
    /\ Get(users, user_id) # <<>>
    /\ IF existing_request # <<>>
       THEN /\ last' = [op |-> "create_request", status |-> 400]
            /\ UNCHANGED <<requests, nextOid>>
       ELSE /\ requests' = Create(requests, new_request, nextOid + 1)
            /\ nextOid' = nextOid + 1
            /\ last' = [op |-> "create_request", status |-> 201]
    /\ UNCHANGED <<users, lotteries, tasks>>

\* user_vehicle_slots of update_request_status after its if / elif
SlotsAfterStatus(vehicle_slots, updated_request, new_status) ==
    LET vehicle_type == updated_request.vehicle_type IN
    IF new_status = "accepted"
    THEN [vehicle_slots EXCEPT ![vehicle_type] =
             [available |-> FALSE, request_id |-> <<updated_request.id>>]]
    ELSE IF /\ new_status \in {"rejected", "pending"}
            /\ vehicle_slots[vehicle_type].request_id = <<updated_request.id>>
    THEN [vehicle_slots EXCEPT ![vehicle_type] =
             [available |-> TRUE, request_id |-> <<>>]]
    ELSE vehicle_slots

\* RequestService.update_request_status
UpdateRequestStatus(request_id, new_status) ==
    LET request == Get(requests, request_id) IN
    /\ IF request = <<>>
       THEN /\ last' = [op |-> "update_request_status", status |-> 404]
            /\ UNCHANGED <<users, requests>>
       ELSE IF request[1].status = new_status
       THEN /\ last' = [op |-> "update_request_status", status |-> 200]
            /\ UNCHANGED <<users, requests>>
       ELSE LET updated_request == [request[1] EXCEPT !.status = new_status]
                user == Get(users, updated_request.user_id)
            IN /\ requests' = Update(requests, request_id, [status |-> new_status])
               /\ users' = IF user = <<>> THEN users
                           ELSE Update(users, user[1].id,
                                       [vehicle_slots |->
                                           SlotsAfterStatus(user[1].vehicle_slots,
                                                            updated_request, new_status)])
               /\ last' = [op |-> "update_request_status", status |-> 200]
    /\ UNCHANGED <<lotteries, nextOid, tasks>>

\* RequestService.delete_request
DeleteRequest(request_id) ==
    LET request_to_delete == Get(requests, request_id) IN
    /\ IF request_to_delete = <<>>
       THEN /\ last' = [op |-> "delete_request", status |-> 404]
            /\ UNCHANGED <<users, requests>>
       ELSE LET req == request_to_delete[1]
                user == Get(users, req.user_id)
            IN /\ requests' = Delete(requests, request_id)
               /\ users' =
                    IF /\ req.status = "accepted"
                       /\ user # <<>>
                       /\ user[1].vehicle_slots[req.vehicle_type].request_id = <<req.id>>
                    THEN Update(users, user[1].id,
                                [vehicle_slots |->
                                    [user[1].vehicle_slots EXCEPT ![req.vehicle_type] =
                                        [available |-> TRUE, request_id |-> <<>>]]])
                    ELSE users
               /\ last' = [op |-> "delete_request", status |-> 200]
    /\ UNCHANGED <<lotteries, nextOid, tasks>>

\* model_dump(exclude_unset=True): the fields of the update that are set
UpdateData(user_update) ==
    [k \in {k \in DOMAIN user_update : user_update[k] # <<>>} |-> user_update[k][1]]

\* whether admin_update_user refuses to demote the last administrator
DemotesLastAdmin(existing_user, update_data, admin_count) ==
    /\ existing_user.role = "administrador"
    /\ "role" \in DOMAIN update_data
    /\ update_data["role"] = "residente"
    /\ admin_count <= 1

\* ResidentService.admin_update_user
AdminUpdateUser(user_id, admin_user_update) ==
    LET existing_user == GetUserByIdentifier(users, user_id)
        update_data == UpdateData(admin_user_update)
        admin_count == Count(users, [role |-> "administrador"])
    IN
    /\ IF existing_user = <<>>
       THEN /\ last' = [op |-> "admin_update_user", status |-> 404]
            /\ UNCHANGED users
       ELSE IF DemotesLastAdmin(existing_user[1], update_data, admin_count)
       THEN /\ last' = [op |-> "admin_update_user", status |-> 400]
            /\ UNCHANGED users
       ELSE /\ users' = Update(users, existing_user[1].id, update_data)
            /\ last' = [op |-> "admin_update_user", status |-> 200]
    /\ UNCHANGED <<requests, lotteries, nextOid, tasks>>

\* ResidentService.update_user (PUT /me): a ResidentUpdate has no role
UpdateUser(user_id, user_update) ==
    LET existing_user == GetUserByIdentifier(users, user_id)
        update_data == UpdateData(user_update)
    IN
    /\ IF existing_user = <<>>
       THEN /\ last' = [op |-> "update_user", status |-> 404]
            /\ UNCHANGED users
       ELSE /\ users' = Update(users, existing_user[1].id, update_data)
            /\ last' = [op |-> "update_user", status |-> 200]
    /\ UNCHANGED <<requests, lotteries, nextOid, tasks>>

----------------------------------------------------------------------------
(* SpecFrame: every handler of the three services, one call at a time, in  *)
(* any order.  The store starts with a resident and an administrator and   *)
(* no request; requests and lottery results are created by the handlers,   *)
(* at most MaxFrameOids documents in all.                                  *)

\* largest number of documents the handlers of SpecFrame create
MaxFrameOids == 2

FrameRequestInputs ==
    [vehicle_type : {"automovil"}, disability : {FALSE}, pay : {FALSE},
     lottery_period : {PeriodCur}]

NewFullName == <<"renamed">>

\* the AdminUserUpdate bodies: a new full_name, or a new role
AdminUserUpdates ==
    {[full_name |-> <<NewFullName>>, role |-> <<>>]}
    \cup [full_name : {<<>>}, role : {<<"residente">>, <<"administrador">>}]

\* the ResidentUpdate bodies: a new full_name
ResidentUpdates == [full_name : {<<NewFullName>>}]

InitFrame ==
    /\ users = <<ResidentDoc("u1", "residente"), ResidentDoc("u2", "administrador")>>
    /\ requests = <<>>
    /\ lotteries = <<>>
    /\ nextOid = 0
    /\ last = NoCall
    /\ tasks = <<>>

NextFrame ==
    \/ \E request_data \in FrameRequestInputs :
          nextOid < MaxFrameOids /\ CreateRequest("u1", request_data)
    \/ \E request_id \in 1..MaxFrameOids, new_status \in RequestStatuses :
          UpdateRequestStatus(request_id, new_status)
    \/ \E request_id \in 1..MaxFrameOids : DeleteRequest(request_id)
    \/ \E period \in Periods, num_car_spots \in 0..1 :
          nextOid < MaxFrameOids /\ ExecuteLottery(period, num_car_spots, 0)
    \/ \E vehicle_type \in VehicleTypeFilters : GetLotteryResult(PeriodCur, vehicle_type)
    \/ GetMyAssignment("u1", PeriodCur)
    \/ \E period \in Periods : DeleteLotteryResult(period)
    \/ \E user_id \in UserIds, admin_user_update \in AdminUserUpdates :
          AdminUpdateUser(user_id, admin_user_update)
    \/ \E user_update \in ResidentUpdates : UpdateUser("u1", user_update)
    \/ \E user_id \in UserIds : DeleteUser(user_id)

SpecFrame == InitFrame /\ [][NextFrame]_vars

\* C22: whatever handler runs (execute_lottery of any period,
\* get_lottery_result with or without a filter, get_my_assignment, a request
\* created, updated or deleted, a user updated or deleted), every stored
\* result is stored unchanged afterwards, field for field down to the names,
\* cc and apartments of its entries, unless the step is a
\* delete_lottery_result of its period that answered 204 and removed it.
C22_StoredResultImmutable ==
    [][\A k \in DOMAIN lotteries :
          LET lot == lotteries[k] IN
          \/ \E j \in DOMAIN lotteries' : lotteries'[j] = lot
          \/ /\ last'.op = "delete_lottery_result"
             /\ last'.status = 204
             /\ last'.period = lot.period
             /\ Get(lotteries', lot.id) = <<>>
    ]_vars

\* C22 witness: a stored result still names its winner u1 as at the draw,
\* although u1 has been renamed since, the request that won has been deleted
\* and the last call read the result filtered down to no winner.
C22_Witness ==
    /\ last.op = "get_lottery_result"
    /\ last.status = 200
    /\ last.result.winners = <<>>
    /\ \E k \in DOMAIN lotteries :
          /\ Len(lotteries[k].winners) = 1
          /\ lotteries[k].winners[1].user_id = "u1"
          /\ lotteries[k].winners[1].full_name = <<"name", "u1">>
          /\ Get(requests, lotteries[k].winners[1].request_id) = <<>>
    /\ \E i \in DOMAIN users : users[i].id = "u1" /\ users[i].full_name = NewFullName

\* C23 (as claimed): a resident never has two requests of one vehicle type
\* and period whose status is pending or accepted, and no draw walks two
\* candidates of one (resident, vehicle type) pair.
C23_OneActiveRequestPerPair ==
    /\ \A i, j \in DOMAIN requests :
          (/\ i # j
           /\ requests[i].user_id = requests[j].user_id
           /\ requests[i].vehicle_type = requests[j].vehicle_type
           /\ requests[i].lottery_period = requests[j].lottery_period)
          => ~(/\ requests[i].status \in {"pending", "accepted"}
               /\ requests[j].status \in {"pending", "accepted"})
    /\ LastRan =>
          \A i, j \in DOMAIN last.final_sorted_requests :
              LET f == last.final_sorted_requests IN
              (/\ i # j
               /\ f[i].user.id = f[j].user.id
               /\ f[i].request.vehicle_type = f[j].request.vehicle_type)
              => FALSE

----------------------------------------------------------------------------
(* SpecRerun: the concurrent execute_lottery calls of SpecRace, with       *)
(* delete_lottery_result requests served between their awaits.             *)

NextRerun ==
    \/ NextRace
    \/ \E period \in Periods : DeleteLotteryResult(period)

SpecRerun == InitRace /\ [][NextRerun]_vars

\* C28 (as claimed): when delete_lottery_result of a period has answered 204,
\* no result of that period is stored any more, so that the lookup of a
\* get_lottery_result that follows finds none (404) and the existence check
\* of an execute_lottery that follows passes (no 409).
C28_DeleteThenRerun ==
    [][(/\ Len(lotteries') < Len(lotteries)
        /\ last'.op = "delete_lottery_result"
        /\ last'.status = 204)
       => /\ FindOne(lotteries', [period |-> last'.period]) = <<>>
          /\ ExistingLottery(lotteries', last'.period) = <<>>
    ]_vars

----------------------------------------------------------------------------
(* SpecSlots: concurrent update_request_status calls, step by step.  Each  *)
(* await of the handler ends a step: get of the request, update of the     *)
(* request, get of the user, update of the user.  The requests are created *)
(* by create_request, at most MaxSlotRequests of them.                     *)

\* largest number of requests created in SpecSlots
MaxSlotRequests == 2

SlotRequestInputs ==
    [vehicle_type : VehicleTypes, disability : {FALSE}, pay : {FALSE},
     lottery_period : {PeriodCur}]

\* a call of update_request_status that has not been received yet
IdleStatusTask ==
    [pc |-> "idle", request_id |-> 0, new_status |-> "pending",
     updated_request |-> <<>>, user_id |-> <<>>, user_vehicle_slots |-> <<>>,
     status |-> 0]

\* the endpoint receives PUT /{request_id}/status
StartUpdateStatus(t, request_id, new_status) ==
    /\ tasks[t].pc = "idle"
    /\ tasks' = [tasks EXCEPT ![t] = [@ EXCEPT !.pc = "get", !.request_id = request_id,
                                               !.new_status = new_status]]
    /\ UNCHANGED <<users, requests, lotteries, nextOid, last>>

\* await request_repository.get; 404, or the early return of an equal status
StatusGet(t) ==
    /\ tasks[t].pc = "get"
    /\ LET request == Get(requests, tasks[t].request_id) IN
       tasks' = [tasks EXCEPT ![t] =
                    IF request = <<>> THEN [@ EXCEPT !.pc = "done", !.status = 404]
                    ELSE IF request[1].status = tasks[t].new_status
                    THEN [@ EXCEPT !.pc = "done", !.status = 200]
                    ELSE [@ EXCEPT !.pc = "update"]]
    /\ UNCHANGED <<users, requests, lotteries, nextOid, last>>

\* await request_repository.update; 500 when the request is gone
StatusUpdate(t) ==
    /\ tasks[t].pc = "update"
    /\ requests' = Update(requests, tasks[t].request_id,
                          [status |-> tasks[t].new_status])
    /\ LET updated_request == Get(requests', tasks[t].request_id) IN
       tasks' = [tasks EXCEPT ![t] =
                    IF updated_request = <<>>
                    THEN [@ EXCEPT !.pc = "done", !.status = 500]
                    ELSE [@ EXCEPT !.pc = "get_user",
                                   !.updated_request = updated_request]]
    /\ UNCHANGED <<users, lotteries, nextOid, last>>

\* await user_repository.get, then the copy of vehicle_slots and its
\* change in memory
StatusGetUser(t) ==
    /\ tasks[t].pc = "get_user"
    /\ LET self == tasks[t]
           user == Get(users, self.updated_request[1].user_id)
       IN tasks' = [tasks EXCEPT ![t] =
                       IF user = <<>>
                       THEN [self EXCEPT !.pc = "done", !.status = 200]
                       ELSE [self EXCEPT
                                !.pc = "update_user",
                                !.user_id = <<user[1].id>>,
                                !.user_vehicle_slots =
                                    <<SlotsAfterStatus(user[1].vehicle_slots,
                                                       self.updated_request[1],
                                                       self.new_status)>>]]
    /\ UNCHANGED <<users, requests, lotteries, nextOid, last>>

\* await user_repository.update with the whole vehicle_slots dict
StatusUpdateUser(t) ==
    /\ tasks[t].pc = "update_user"
    /\ users' = Update(users, tasks[t].user_id[1],
                       [vehicle_slots |-> tasks[t].user_vehicle_slots[1]])
    /\ tasks' = [tasks EXCEPT ![t] = [@ EXCEPT !.pc = "done", !.status = 200]]
    /\ UNCHANGED <<requests, lotteries, nextOid, last>>

InitSlots ==
    /\ users = <<ResidentDoc("u1", "residente"), ResidentDoc("u2", "administrador")>>
    /\ requests = <<>>
    /\ lotteries = <<>>
    /\ nextOid = 0
    /\ last = NoCall
    /\ tasks = [t \in TaskIds |-> IdleStatusTask]

NextSlots ==
    \/ \E request_data \in SlotRequestInputs :
          nextOid < MaxSlotRequests /\ CreateRequest("u1", request_data)
    \/ \E t \in TaskIds :
          \/ \E request_id \in 1..MaxSlotRequests, new_status \in RequestStatuses :
                StartUpdateStatus(t, request_id, new_status)
          \/ StatusGet(t)
          \/ StatusUpdate(t)
          \/ StatusGetUser(t)
          \/ StatusUpdateUser(t)

SpecSlots == InitSlots /\ [][NextSlots]_vars

\* C29 (as claimed): when two update_request_status calls that accept two
\* requests of one resident for different vehicle types have both returned,
\* the vehicle_slots of the resident mark both types unavailable, each with
\* its own request id.
C29_NoLostSlotUpdate ==
    \A t1, t2 \in TaskIds :
        (/\ t1 # t2
         /\ \A t \in {t1, t2} : /\ tasks[t].pc = "done"
                                /\ tasks[t].status = 200
                                /\ tasks[t].new_status = "accepted"
                                /\ tasks[t].user_id # <<>>
         /\ tasks[t1].user_id = tasks[t2].user_id
         /\ tasks[t1].updated_request[1].vehicle_type
              # tasks[t2].updated_request[1].vehicle_type)
        => \A t \in {t1, t2} :
              Get(users, tasks[t].user_id[1])[1]
                  .vehicle_slots[tasks[t].updated_request[1].vehicle_type]
                = [available |-> FALSE, request_id |-> <<tasks[t].request_id>>]

----------------------------------------------------------------------------
(* SpecAdmins: concurrent delete_user and admin_update_user calls, step by *)
(* step: the lookup of the user, the count of the administrators, the      *)
(* write.  The store starts with two users, at least one of them an        *)
(* administrator.                                                          *)

UserRoles == {"residente", "administrador"}

\* a call of delete_user or admin_update_user not received yet
IdleUserTask ==
    [pc |-> "idle", op |-> "none", user_id |-> <<>>, update_data |-> <<>>,
     existing_user |-> <<>>, status |-> 0]

\* the endpoint receives DELETE /{identifier}
StartDeleteUser(t, user_id) ==
    /\ tasks[t].pc = "idle"
    /\ tasks' = [tasks EXCEPT ![t] = [@ EXCEPT !.pc = "lookup", !.op = "delete_user",
                                               !.user_id = <<user_id>>]]
    /\ UNCHANGED <<users, requests, lotteries, nextOid, last>>

\* the endpoint receives PUT /{identifier}
StartAdminUpdate(t, user_id, admin_user_update) ==
    /\ tasks[t].pc = "idle"
    /\ tasks' = [tasks EXCEPT ![t] =
                    [@ EXCEPT !.pc = "lookup", !.op = "admin_update_user",
                              !.user_id = <<user_id>>,
                              !.update_data = <<UpdateData(admin_user_update)>>]]
    /\ UNCHANGED <<users, requests, lotteries, nextOid, last>>

\* whether the call goes on to count the administrators
CountsAdmins(self, existing_user) ==
    /\ existing_user.role = "administrador"
    /\ \/ self.op = "delete_user"
       \/ /\ "role" \in DOMAIN self.update_data[1]
          /\ self.update_data[1]["role"] = "residente"

\* await _get_user_by_identifier; 404 when the user is not found
UserLookup(t) ==
    /\ tasks[t].pc = "lookup"
    /\ LET self == tasks[t]
           existing_user == GetUserByIdentifier(users, self.user_id[1])
       IN tasks' = [tasks EXCEPT ![t] =
                       IF existing_user = <<>>
                       THEN [self EXCEPT !.pc = "done", !.status = 404]
                       ELSE [self EXCEPT !.existing_user = existing_user,
                                         !.pc = IF CountsAdmins(self, existing_user[1])
                                                THEN "count" ELSE "write"]]
    /\ UNCHANGED <<users, requests, lotteries, nextOid, last>>

\* await user_repository.count({"role": "administrador"}); 400 when it is
\* at most one
UserCount(t) ==
    /\ tasks[t].pc = "count"
    /\ tasks' = [tasks EXCEPT ![t] =
                    IF Count(users, [role |-> "administrador"]) <= 1
                    THEN [@ EXCEPT !.pc = "done", !.status = 400]
                    ELSE [@ EXCEPT !.pc = "write"]]
    /\ UNCHANGED <<users, requests, lotteries, nextOid, last>>

\* await user_repository.delete or update by the id of the user found; 500
\* when the document is gone
UserWrite(t) ==
    /\ tasks[t].pc = "write"
    /\ LET self == tasks[t]
           id == self.existing_user[1].id
       IN /\ users' = IF self.op = "delete_user" THEN Delete(users, id)
                      ELSE Update(users, id, self.update_data[1])
          /\ tasks' = [tasks EXCEPT ![t] =
                          [self EXCEPT !.pc = "done",
                                       !.status = IF Get(users, id) = <<>>
                                                  THEN 500 ELSE 200]]
    /\ UNCHANGED <<requests, lotteries, nextOid, last>>

InitAdmins ==
    /\ \E r1, r2 \in UserRoles :
          /\ "administrador" \in {r1, r2}
          /\ users = <<ResidentDoc("u1", r1), ResidentDoc("u2", r2)>>
    /\ requests = <<>>
    /\ lotteries = <<>>
    /\ nextOid = 0
    /\ last = NoCall
    /\ tasks = [t \in TaskIds |-> IdleUserTask]

NextAdmins ==
    \E t \in TaskIds :
        \/ \E user_id \in UserIds : StartDeleteUser(t, user_id)
        \/ \E user_id \in UserIds, admin_user_update \in AdminUserUpdates :
              StartAdminUpdate(t, user_id, admin_user_update)
        \/ UserLookup(t)
        \/ UserCount(t)
        \/ UserWrite(t)

SpecAdmins == InitAdmins /\ [][NextAdmins]_vars

\* C30 (as claimed): under any interleaving of delete_user and
\* admin_update_user calls, at least one user with role administrador
\* remains.
C30_LastAdminProtected ==
    Count(users, [role |-> "administrador"]) >= 1

====
